---------------------------- MODULE Spec2Model ----------------------------
(***************************************************************************)
(* Wallet API of hellno/agentica (backend/wallet_api): the provisioning    *)
(* endpoint POST /wallets and the dynamic action dispatcher                *)
(* POST /wallets/{room_id}/{action}, with the transaction ledger they      *)
(* write through.                                                          *)
(*                                                                         *)
(* Every request is a process.  One step of a process is the code between  *)
(* two awaits: one datastore call or one CDP (Wallet Service) call,        *)
(* together with the local code that follows it.                           *)
(*                                                                         *)
(* Environment: a CDP call either returns or raises.  A datastore write    *)
(* (insert, update) either is applied and returns the row, or raises and   *)
(* is not applied.  Datastore reads return.  The agent_wallets table       *)
(* enforces uniqueness of room_id (database.py:12).  The CDP client is set *)
(* by startup, without which the app does not serve (main.py:90-129).      *)
(***************************************************************************)
EXTENDS Integers, Sequences, FiniteSets, TLC

\* ------------------------------------------------------------------ bounds
MaxProcs == 2

Procs == 1 .. MaxProcs

\* ------------------------------------------------------------------- values
\* Python None, for record-valued slots
None == [tag |-> "None"]

\* dict.get() of an absent key (None), for string-valued slots
Missing == "<None>"

\* a JSON value that is not a string (a number), for string-valued slots
NonString == "<number>"

Rooms == {"r1", "r2"}

NETWORK == "base"

VARIABLES
    wallets,      \* table agent_wallets: a set of rows (room_id unique)
    ledger,       \* table wallet_transactions: sequence of rows, id = position
    cdpAccounts,  \* CDP: the owner accounts (EOA), each a name with its address
    cdpSmart,     \* CDP: the smart accounts, each a name with its address
    pc,           \* per request: where it is
    req,          \* per request: what was asked
    loc,          \* per request: local variables of the endpoint and handler
    resp,         \* per request: what the caller received
    platformAgents,  \* table platform_agents: a set of rows
    platformRooms,   \* table platform_rooms: a set of rows
    elizaAgents,     \* Agent Runtime (ElizaOS): the ids of the agents it holds
    elizaStarted,    \* Agent Runtime: the ids of the agents that were started
    elizaRooms       \* Agent Runtime: the rooms it holds

\* the state of the platform API (modal_app.py) and of the Agent Runtime
platform == <<platformAgents, platformRooms, elizaAgents, elizaStarted, elizaRooms>>

vars == <<wallets, ledger, cdpAccounts, cdpSmart, pc, req, loc, resp, platform>>

\* ---------------------------------------------------------- Wallet Service
\* CDP keeps accounts by name; an account gets its address when it is
\* created.  The address of the n-th owner account (EOA) created under a name:
OwnerAddress(name, n) == [kind |-> "eoa", name |-> name, n |-> n]

\* The address of the n-th smart account created under a name.
SmartAddress(name, n) == [kind |-> "smart", name |-> name, n |-> n]

OwnerHandle(name, n) == [name |-> name, address |-> OwnerAddress(name, n)]

SmartHandle(name, n) == [name |-> name, address |-> SmartAddress(name, n)]

\* the accounts CDP holds under a name
AccountsNamed(accounts, name) == {a \in accounts : a.name = name}

\* get_or_create_account that creates an account on every call
get_or_create_account_always_new(name) ==
    OwnerHandle(name, Cardinality(AccountsNamed(cdpAccounts, name)) + 1)

\* cdp_client.evm.get_or_create_account(name=...): the account of that name
\* if there is one, else a new one
get_or_create_account(name) ==
    IF AccountsNamed(cdpAccounts, name) # {}
    THEN CHOOSE a \in AccountsNamed(cdpAccounts, name) : TRUE
    ELSE OwnerHandle(name, 1)

\* get_or_create_smart_account that creates a smart account on every call
get_or_create_smart_account_always_new(name) ==
    SmartHandle(name, Cardinality(AccountsNamed(cdpSmart, name)) + 1)

\* cdp_client.evm.get_or_create_smart_account(name=..., owner=...)
get_or_create_smart_account(name) ==
    IF AccountsNamed(cdpSmart, name) # {}
    THEN CHOOSE a \in AccountsNamed(cdpSmart, name) : TRUE
    ELSE SmartHandle(name, 1)

\* ---------------------------------------------------------------- datastore
\* The row create_wallet inserts; by = the request that inserted it
\* (0: a row stored before this run).
WalletRow(room_id, owner_account_name, owner_address, smart_account_address, network, by) ==
    [room_id |-> room_id,
     owner_account_name |-> owner_account_name,
     address |-> owner_address,
     smart_account_address |-> smart_account_address,
     account_name |-> owner_account_name,
     network |-> network,
     by |-> by]

\* select * from agent_wallets where room_id = ...
RowsOf(room_id) == {w \in wallets : w.room_id = room_id}

\* get_wallet: result.data[0] if there is one, else None
get_wallet(room_id) ==
    IF RowsOf(room_id) # {} THEN CHOOSE w \in RowsOf(room_id) : TRUE ELSE None

\* wallet_exists with the lookup lost: no wallet is ever seen
wallet_exists_never(room_id) == FALSE

\* wallet_exists: get_wallet(...) is not None
wallet_exists(room_id) == get_wallet(room_id) # None

\* The unique constraint on agent_wallets.room_id: an insert of a second row
\* for a room raises.
UniqueViolation(room_id) == RowsOf(room_id) # {}

\* ------------------------------------------------------------------ errors
\* HTTPException(status_code, detail); detail is a sequence of message parts
HTTPException(code, detail) == [exc |-> "HTTPException", code |-> code, detail |-> detail]

\* a plain Exception(message)
PlainException(detail) == [exc |-> "Exception", code |-> 0, detail |-> detail]

\* f"{prefix}{str(e)}"
Prefixed(prefix, e) == <<prefix>> \o e.detail

\* What the caller receives for an exception that leaves the endpoint: an
\* HTTPException as it is, anything else through global_exception_handler.
Surfaced(e) ==
    IF e.exc = "HTTPException"
    THEN [code |-> e.code, detail |-> e.detail, success |-> FALSE, result |-> None,
          transaction_id |-> 0]
    ELSE [code |-> 500, detail |-> <<"Internal server error">>, success |-> FALSE,
          result |-> None, transaction_id |-> 0]

\* ------------------------------------------------------------------ locals
NoLocals ==
    [wallet |-> None, owner |-> None, smart |-> None, txid |-> 0,
     op |-> None, result |-> None, exc |-> None,
     hresult |-> None, herr |-> None, calls |-> <<>>, ops |-> <<>>]

NoRequest == [kind |-> "none"]

\* account_name of a wallet stored under the old schema: "room-{room_id}"
LegacyName(room_id) ==
    CASE room_id = "r1" -> "room-r1"
      [] room_id = "r2" -> "room-r2"

\* A row stored under the old schema (database.py:10-16): account_name,
\* address and network only.
LegacyRow(room_id) ==
    [room_id |-> room_id,
     owner_account_name |-> Missing,
     address |-> OwnerAddress(LegacyName(room_id), 1),
     smart_account_address |-> None,
     account_name |-> LegacyName(room_id),
     network |-> "base-sepolia",
     by |-> 0]

\* What is stored for a room when a run starts: nothing, the wallet an
\* earlier provision of it stored, or a wallet of the old schema.
StoreKinds == {"none", "stored", "legacy"}

StoredBefore(room_id, kind) ==
    CASE kind = "none" -> {}
      [] kind = "stored" ->
            {WalletRow(room_id, room_id, OwnerAddress(room_id, 1), SmartAddress(room_id, 1), NETWORK, 0)}
      [] kind = "legacy" -> {LegacyRow(room_id)}

\* the owner accounts and the smart accounts CDP holds for such a room
OwnersBefore(room_id, kind) ==
    CASE kind = "none" -> {}
      [] kind = "stored" -> {OwnerHandle(room_id, 1)}
      [] kind = "legacy" -> {OwnerHandle(LegacyName(room_id), 1)}

SmartBefore(room_id, kind) ==
    IF kind = "stored" THEN {SmartHandle(room_id, 1)} ELSE {}

KindRank(kind) ==
    CASE kind = "none" -> 0
      [] kind = "stored" -> 1
      [] kind = "legacy" -> 2

\* the stores with r1 of kind k1 and r2 of kind k2
StoresAre(k1, k2) ==
    /\ wallets = StoredBefore("r1", k1) \cup StoredBefore("r2", k2)
    /\ cdpAccounts = OwnersBefore("r1", k1) \cup OwnersBefore("r2", k2)
    /\ cdpSmart = SmartBefore("r1", k1) \cup SmartBefore("r2", k2)

\* no request taken up yet, the ledger empty; the wallet API is looked at
\* on its own: nothing of the platform API is stored
NothingRequested ==
    /\ platformAgents = {} /\ platformRooms = {}
    /\ elizaAgents = {} /\ elizaStarted = {} /\ elizaRooms = {}
    /\ ledger = <<>>
    /\ pc = [p \in Procs |-> "idle"]
    /\ req = [p \in Procs |-> NoRequest]
    /\ loc = [p \in Procs |-> NoLocals]
    /\ resp = [p \in Procs |-> None]

\* Rooms are interchangeable: the stores are taken up to renaming of rooms.
\* Every room has no wallet yet or the wallet an earlier provision stored.
Init ==
    /\ \E k1 \in {"none", "stored"}, k2 \in {"none", "stored"} :
          KindRank(k1) >= KindRank(k2) /\ StoresAre(k1, k2)
    /\ NothingRequested

\* The stores of a deployment that has a wallet of the old schema.
InitLegacy ==
    /\ \E k2 \in StoreKinds : StoresAre("legacy", k2)
    /\ NothingRequested

\* Requests are taken up in the order of their numbers.
MayStart(p) == pc[p] = "idle" /\ \A q \in Procs : q < p => pc[q] # "idle"

\* the request has made the Wallet Service call name; ok: it returned
Called(p, name, ok) == [loc EXCEPT ![p].calls = Append(@, [call |-> name, ok |-> ok])]

Raise(p, e) ==
    /\ pc' = [pc EXCEPT ![p] = "done"]
    /\ resp' = [resp EXCEPT ![p] = Surfaced(e)]

\* =========================================================== POST /wallets
\* room_id = request.room_id.strip()
StartProvision(p) ==
    /\ MayStart(p)
    /\ \E r \in Rooms :
          req' = [req EXCEPT ![p] = [kind |-> "provision", room_id |-> r]]
    /\ pc' = [pc EXCEPT ![p] = "p_check"]
    /\ UNCHANGED <<wallets, ledger, cdpAccounts, cdpSmart, loc, resp, platform>>

\* owner_account_name = room_id
owner_account_name_of(room_id) == room_id

\* existing_wallet = await wallet_exists(room_id); 409 if it exists
ProvisionCheck(p) ==
    /\ pc[p] = "p_check"
    /\ IF wallet_exists(req[p].room_id)
       THEN Raise(p, HTTPException(409, <<"Wallet already exists for room_id: ", req[p].room_id>>))
       ELSE /\ pc' = [pc EXCEPT ![p] = "p_owner"]
            /\ UNCHANGED resp
    /\ UNCHANGED <<wallets, ledger, cdpAccounts, cdpSmart, req, loc, platform>>

\* owner_account = await cdp_client.evm.get_or_create_account(name=...)
ProvisionOwner(p) ==
    /\ pc[p] = "p_owner"
    /\ LET name == owner_account_name_of(req[p].room_id) IN
       \/ /\ cdpAccounts' = cdpAccounts \cup {get_or_create_account(name)}
          /\ loc' = [Called(p, "get_or_create_account", TRUE) EXCEPT ![p].owner = get_or_create_account(name)]
          /\ pc' = [pc EXCEPT ![p] = "p_smart"]
          /\ UNCHANGED resp
       \/ /\ loc' = Called(p, "get_or_create_account", FALSE)
          /\ Raise(p, HTTPException(500, <<"Failed to create owner account: ", "cdp error">>))
          /\ UNCHANGED cdpAccounts
    /\ UNCHANGED <<wallets, ledger, cdpSmart, req, platform>>

\* ProvisionSmart with the exception swallowed: the endpoint goes on to the
\* insert without a smart account
ProvisionSmartSwallowed(p) ==
    /\ pc[p] = "p_smart"
    /\ LET name == owner_account_name_of(req[p].room_id) IN
       \/ /\ cdpSmart' = cdpSmart \cup {get_or_create_smart_account(name)}
          /\ loc' = [Called(p, "get_or_create_smart_account", TRUE) EXCEPT ![p].smart = get_or_create_smart_account(name)]
       \/ /\ loc' = [Called(p, "get_or_create_smart_account", FALSE) EXCEPT
                        ![p].smart = [name |-> name, address |-> None]]
          /\ UNCHANGED cdpSmart
    /\ pc' = [pc EXCEPT ![p] = "p_insert"]
    /\ UNCHANGED <<wallets, ledger, cdpAccounts, req, resp, platform>>

\* smart_account = await cdp_client.evm.get_or_create_smart_account(name, owner)
ProvisionSmart(p) ==
    /\ pc[p] = "p_smart"
    /\ LET name == owner_account_name_of(req[p].room_id) IN
       \/ /\ cdpSmart' = cdpSmart \cup {get_or_create_smart_account(name)}
          /\ loc' = [Called(p, "get_or_create_smart_account", TRUE) EXCEPT ![p].smart = get_or_create_smart_account(name)]
          /\ pc' = [pc EXCEPT ![p] = "p_insert"]
          /\ UNCHANGED resp
       \/ /\ loc' = Called(p, "get_or_create_smart_account", FALSE)
          /\ Raise(p, HTTPException(500, <<"Failed to create smart account: ", "cdp error">>))
          /\ UNCHANGED cdpSmart
    /\ UNCHANGED <<wallets, ledger, cdpAccounts, req, platform>>

\* db_wallet = await create_wallet(...); any exception becomes a 500
ProvisionInsert(p) ==
    /\ pc[p] = "p_insert"
    /\ LET r == req[p].room_id
           name == owner_account_name_of(r)
           row == WalletRow(r, name, loc[p].owner.address, loc[p].smart.address, NETWORK, p)
       IN
       \/ /\ ~UniqueViolation(r)
          /\ wallets' = wallets \cup {row}
          /\ pc' = [pc EXCEPT ![p] = "done"]
          /\ resp' = [resp EXCEPT ![p] =
                [code |-> 201, detail |-> <<>>, success |-> TRUE,
                 result |-> [room_id |-> r, owner_account_name |-> name,
                             owner_address |-> loc[p].owner.address,
                             smart_account_address |-> loc[p].smart.address,
                             network |-> NETWORK],
                 transaction_id |-> 0]]
       \/ /\ Raise(p, HTTPException(500, <<"Failed to save wallet to database: ",
                    IF UniqueViolation(r) THEN "duplicate key value violates unique constraint"
                    ELSE "datastore error">>))
          /\ UNCHANGED wallets
    /\ UNCHANGED <<ledger, cdpAccounts, cdpSmart, req, loc, platform>>

Provision(p) ==
    \/ StartProvision(p)
    \/ ProvisionCheck(p)
    \/ ProvisionOwner(p)
    \/ ProvisionSmart(p)
    \/ ProvisionInsert(p)

\* ========================================= POST /wallets/{room_id}/{action}
\* the registry with one handler too many
SupportedActionsWithStake == {"balance", "transfer", "swap", "stake"}

\* get_supported_actions(): the keys of the registry
SupportedActions == {"balance", "transfer", "swap"}

\* the zero address: the native asset
ZERO_ADDRESS == "0x0000000000000000000000000000000000000000"

Params(to_address, amount, from_token, to_token) ==
    [to_address |-> to_address, amount |-> amount,
     from_token |-> from_token, to_token |-> to_token]

NoParams == Params(Missing, Missing, Missing, Missing)

\* the requests a caller sends: an action name with a params dict
DispatchInputs ==
    { [action |-> "balance", params |-> NoParams],
      [action |-> "stake", params |-> NoParams],
      [action |-> "transfer", params |-> Params("0xabc", "0.01", Missing, Missing)],
      [action |-> "transfer", params |-> Params(Missing, "0.01", Missing, Missing)],
      [action |-> "transfer", params |-> Params("0xabc", Missing, Missing, Missing)],
      [action |-> "swap", params |-> Params(Missing, "5", "ETH", "USDC")],
      [action |-> "swap", params |-> Params(Missing, "5", "eth", "USDC")],
      [action |-> "swap", params |-> Params(Missing, "5", ZERO_ADDRESS, "USDC")],
      [action |-> "swap", params |-> Params(Missing, "5", "USDC", "ETH")],
      [action |-> "swap", params |-> Params(Missing, "0.01", "USDC", "ETH")],
      [action |-> "swap", params |-> Params(Missing, "5", Missing, "USDC")],
      [action |-> "swap", params |-> Params(Missing, "5", "USDC", Missing)],
      [action |-> "swap", params |-> Params(Missing, Missing, "USDC", "ETH")],
      [action |-> "swap", params |-> Params(Missing, "5", "FOO", "ETH")],
      [action |-> "swap", params |-> Params(Missing, "5", "ETH", "FOO")],
      [action |-> "swap", params |-> Params(Missing, "5", NonString, "ETH")] }

\* Python truth value of a params value: None and "" are false
Falsy(v) == v \in {Missing, ""}

\* ----------------------------------------------------------------- ledger
\* the record logged as already finished
LogStatusSuccess == "success"

\* the status log_transaction is called with (main.py:361)
LogStatus == "pending"

\* log_transaction: the inserted row; its id is generated by the datastore
TransactionRow(id, room_id, action, params, status, by) ==
    [id |-> id, room_id |-> room_id, action |-> action, params |-> params,
     status |-> status, result |-> None, error |-> None, by |-> by]

\* str(detail), as stored in the error column
ErrorText(detail) == [text |-> detail]

\* update_transaction that leaves the status out of update_data
update_transaction_no_status(transaction_id, status, result, error) ==
    [ledger EXCEPT ![transaction_id] =
        [@ EXCEPT !.result = IF result # None THEN result ELSE @,
                  !.error = IF error # None THEN error ELSE @]]

\* update_transaction that leaves the error out of update_data
update_transaction_no_error(transaction_id, status, result, error) ==
    [ledger EXCEPT ![transaction_id] =
        [@ EXCEPT !.status = status,
                  !.result = IF result # None THEN result ELSE @]]

\* update_transaction without .eq("id", transaction_id): the newest row is written
update_transaction_newest(transaction_id, status, result, error) ==
    [ledger EXCEPT ![Len(ledger)] =
        [@ EXCEPT !.status = status,
                  !.result = IF result # None THEN result ELSE @,
                  !.error = IF error # None THEN error ELSE @]]

\* update_transaction: status always, result and error only when not None
update_transaction(transaction_id, status, result, error) ==
    [ledger EXCEPT ![transaction_id] =
        [@ EXCEPT !.status = status,
                  !.result = IF result # None THEN result ELSE @,
                  !.error = IF error # None THEN error ELSE @]]

\* the exception a failed datastore call raises
DbError == PlainException(<<"datastore error">>)

StartDispatch(p) ==
    /\ MayStart(p)
    /\ \E r \in Rooms, i \in DispatchInputs :
          req' = [req EXCEPT ![p] =
                    [kind |-> "dispatch", room_id |-> r,
                     action |-> i.action, params |-> i.params]]
    /\ pc' = [pc EXCEPT ![p] = "d_check"]
    /\ UNCHANGED <<wallets, ledger, cdpAccounts, cdpSmart, loc, resp, platform>>

\* the endpoint's check of the action name lost
ValidActionAny(action) == TRUE

\* if action not in supported_actions: 400
ValidAction(action) == action \in SupportedActions

\* the endpoint's check of the wallet lost
WalletFoundAlways(wallet) == TRUE

\* if not wallet: 404
WalletFound(wallet) == wallet # None

\* validate the action type, then wallet = await get_wallet(room_id)
DispatchCheck(p) ==
    /\ pc[p] = "d_check"
    /\ IF ~ValidAction(req[p].action)
       THEN /\ Raise(p, HTTPException(400, <<"Invalid action: ", req[p].action>>))
            /\ UNCHANGED loc
       ELSE IF ~WalletFound(get_wallet(req[p].room_id))
       THEN /\ Raise(p, HTTPException(404, <<"Wallet not found for room_id: ", req[p].room_id>>))
            /\ UNCHANGED loc
       ELSE /\ pc' = [pc EXCEPT ![p] = "d_log"]
            /\ loc' = [loc EXCEPT ![p].wallet = get_wallet(req[p].room_id)]
            /\ UNCHANGED resp
    /\ UNCHANGED <<wallets, ledger, cdpAccounts, cdpSmart, req, platform>>

\* DispatchLog with a failed append swallowed: the handler runs without a
\* Transaction Record
DispatchLogSwallowed(p) ==
    /\ pc[p] = "d_log"
    /\ \/ /\ ledger' = Append(ledger,
                TransactionRow(Len(ledger) + 1, req[p].room_id, req[p].action,
                               req[p].params, LogStatus, p))
          /\ loc' = [loc EXCEPT ![p].txid = Len(ledger) + 1]
       \/ UNCHANGED <<ledger, loc>>
    /\ pc' = [pc EXCEPT ![p] = "h_start"]
    /\ UNCHANGED <<wallets, cdpAccounts, cdpSmart, req, resp, platform>>

\* transaction_log = await log_transaction(..., status="pending")
DispatchLog(p) ==
    /\ pc[p] = "d_log"
    /\ \/ /\ ledger' = Append(ledger,
                TransactionRow(Len(ledger) + 1, req[p].room_id, req[p].action,
                               req[p].params, LogStatus, p))
          /\ loc' = [loc EXCEPT ![p].txid = Len(ledger) + 1]
          /\ pc' = [pc EXCEPT ![p] = "h_start"]
          /\ UNCHANGED resp
       \/ /\ Raise(p, DbError)
          /\ UNCHANGED <<ledger, loc>>
    /\ UNCHANGED <<wallets, cdpAccounts, cdpSmart, req, platform>>

\* ------------------------------------------------------------- handlers
\* TOKEN_ADDRESSES: symbol -> contract address on Base
TOKEN_ADDRESSES ==
    [sym \in {"ETH", "WETH", "USDC", "DAI", "USDT"} |->
        CASE sym = "ETH" -> ZERO_ADDRESS
          [] sym = "WETH" -> "0x4200000000000000000000000000000000000006"
          [] sym = "USDC" -> "0x833589fCD6eDb6E08f4c7C32D4f71b54bdA02913"
          [] sym = "DAI" -> "0x50c5725949A6F0c72E6C4a641F24049A917DB0Cb"
          [] sym = "USDT" -> "0xfde4C96c8593536E31F229EA8f37b2ADa2699bb2"]

PERMIT2_ADDRESS == "0x000000000022D473030F116dDEE9F6B43aC78BA3"

\* token.startswith("0x"), on the identifiers a request uses
StartsWith0x(token) ==
    token \in {TOKEN_ADDRESSES[sym] : sym \in DOMAIN TOKEN_ADDRESSES} \cup {"0xabc"}

\* token.upper()
Upper(token) ==
    CASE token = "eth" -> "ETH"
      [] token = "usdc" -> "USDC"
      [] OTHER -> token

\* token.lower()
Lower(token) ==
    CASE token = "ETH" -> "eth"
      [] token = "USDC" -> "usdc"
      [] OTHER -> token

\* resolve_token_address looking the symbol up as it was written
resolve_token_address_as_written(token) ==
    IF StartsWith0x(token) THEN [address |-> token, error |-> None]
    ELSE IF token \in DOMAIN TOKEN_ADDRESSES
    THEN [address |-> TOKEN_ADDRESSES[token], error |-> None]
    ELSE [address |-> Missing, error |-> HTTPException(400, <<"Unknown token: ", token>>)]

\* resolve_token_address: the address it returns, or the HTTPException it
\* raises
resolve_token_address(token) ==
    IF StartsWith0x(token) THEN [address |-> token, error |-> None]
    ELSE IF Upper(token) \in DOMAIN TOKEN_ADDRESSES
    THEN [address |-> TOKEN_ADDRESSES[Upper(token)], error |-> None]
    ELSE [address |-> Missing, error |-> HTTPException(400, <<"Unknown token: ", token>>)]

\* resolve_token_address: None when it returns, else the HTTPException
ResolveError(token) == resolve_token_address(token).error

\* int(amount): defined on integer literals only
IsIntLiteral(amount) == amount \in {"5"}

IntOf(amount) == CASE amount = "5" -> 5 [] OTHER -> 0

\* handle_transfer, before its try: the required parameters
TransferParamError(params) ==
    IF Falsy(params.to_address)
    THEN HTTPException(400, <<"Missing required parameter: to_address">>)
    ELSE IF Falsy(params.amount)
    THEN HTTPException(400, <<"Missing required parameter: amount">>)
    ELSE None

\* handle_swap, before its try: the required parameters, then both tokens
\* resolved (a value that is not a string has no startswith)
SwapParamError(params) ==
    IF Falsy(params.from_token)
    THEN HTTPException(400, <<"Missing required parameter: from_token">>)
    ELSE IF Falsy(params.to_token)
    THEN HTTPException(400, <<"Missing required parameter: to_token">>)
    ELSE IF Falsy(params.amount)
    THEN HTTPException(400, <<"Missing required parameter: amount">>)
    ELSE IF params.from_token = NonString \/ params.to_token = NonString
    THEN PlainException(<<"object has no attribute 'startswith'">>)
    ELSE IF ResolveError(params.from_token) # None
    THEN ResolveError(params.from_token)
    ELSE ResolveError(params.to_token)

\* what a handler raises before it reads the wallet, or None
ParamError(action, params) ==
    CASE action = "transfer" -> TransferParamError(params)
      [] action = "swap" -> SwapParamError(params)
      [] OTHER -> None

\* wallet.get("owner_account_name") or wallet.get("account_name")
OwnerNameOf(wallet) ==
    IF Falsy(wallet.owner_account_name) THEN wallet.account_name
    ELSE wallet.owner_account_name

\* handle_balance answering with the owner's address
BalanceResultOwnerAddress(room_id, wallet) ==
    [address |-> wallet.address,
     account_name |-> OwnerNameOf(wallet),
     room_id |-> room_id,
     network |-> wallet.network]

\* handle_balance's result
BalanceResult(room_id, wallet) ==
    [address |-> IF wallet.smart_account_address = None
                 THEN wallet.address
                 ELSE wallet.smart_account_address,
     account_name |-> OwnerNameOf(wallet),
     room_id |-> room_id,
     network |-> wallet.network]

\* the except clause of dynamic_action_endpoint an exception lands in
ExceptPc(e) == IF e.exc = "HTTPException" THEN "d_http" ELSE "d_exc"

\* the handler raises e
HandlerRaises(p, l, e) ==
    /\ loc' = [l EXCEPT ![p].exc = e, ![p].herr = e]
    /\ pc' = [pc EXCEPT ![p] = ExceptPc(e)]

\* the handler returns result
HandlerReturns(p, l, result) ==
    /\ loc' = [l EXCEPT ![p].result = result, ![p].hresult = result]
    /\ pc' = [pc EXCEPT ![p] = "d_success"]

NotFoundError(room_id) == HTTPException(404, <<"Wallet not found for room_id: ", room_id>>)

\* HandlerStart going on with the wallet the endpoint's check has read,
\* without a lookup of its own
HandlerStartCachedWallet(p) ==
    /\ pc[p] = "h_start"
    /\ LET e == ParamError(req[p].action, req[p].params)
           w == loc[p].wallet
       IN IF req[p].action \notin SupportedActions
          THEN HandlerRaises(p, loc, HTTPException(400, <<"Invalid action: ", req[p].action>>))
          ELSE IF e # None THEN HandlerRaises(p, loc, e)
          ELSE IF w = None THEN HandlerRaises(p, loc, NotFoundError(req[p].room_id))
          ELSE IF req[p].action = "balance"
          THEN HandlerReturns(p, loc, BalanceResult(req[p].room_id, w))
          ELSE IF Falsy(OwnerNameOf(w))
          THEN HandlerRaises(p, loc, HTTPException(500, <<"Wallet missing owner account name">>))
          ELSE /\ loc' = [loc EXCEPT ![p].wallet = w]
               /\ pc' = [pc EXCEPT ![p] = "h_owner"]
    /\ UNCHANGED <<wallets, ledger, cdpAccounts, cdpSmart, req, resp, platform>>

\* execute_action: the handler's parameter checks and its get_wallet
HandlerStart(p) ==
    /\ pc[p] = "h_start"
    /\ LET e == ParamError(req[p].action, req[p].params)
           w == get_wallet(req[p].room_id)
       IN IF req[p].action \notin SupportedActions
          THEN HandlerRaises(p, loc, HTTPException(400, <<"Invalid action: ", req[p].action>>))
          ELSE IF e # None THEN HandlerRaises(p, loc, e)
          ELSE IF w = None THEN HandlerRaises(p, loc, NotFoundError(req[p].room_id))
          ELSE IF req[p].action = "balance"
          THEN HandlerReturns(p, loc, BalanceResult(req[p].room_id, w))
          ELSE IF Falsy(OwnerNameOf(w))
          THEN HandlerRaises(p, loc, HTTPException(500, <<"Wallet missing owner account name">>))
          ELSE /\ loc' = [loc EXCEPT ![p].wallet = w]
               /\ pc' = [pc EXCEPT ![p] = "h_owner"]
    /\ UNCHANGED <<wallets, ledger, cdpAccounts, cdpSmart, req, resp, platform>>

\* the owner account taken from a handle kept since provisioning, without a
\* request to the Wallet Service
HandlerOwnerCached(p) ==
    /\ pc[p] = "h_owner"
    /\ loc' = [loc EXCEPT ![p].owner = OwnerHandle(OwnerNameOf(loc[p].wallet), 1)]
    /\ pc' = [pc EXCEPT ![p] = "h_smart"]
    /\ UNCHANGED <<wallets, ledger, cdpAccounts, cdpSmart, req, resp, platform>>

\* owner_account = await cdp_client.evm.get_or_create_account(name=owner_account_name)
HandlerOwner(p) ==
    /\ pc[p] = "h_owner"
    /\ LET name == OwnerNameOf(loc[p].wallet)
       IN \/ /\ cdpAccounts' = cdpAccounts \cup {get_or_create_account(name)}
             /\ loc' = [Called(p, "get_or_create_account", TRUE) EXCEPT ![p].owner = get_or_create_account(name)]
             /\ pc' = [pc EXCEPT ![p] = "h_smart"]
          \/ /\ HandlerRaises(p, Called(p, "get_or_create_account", FALSE), HTTPException(500, <<"Failed to retrieve owner account: ", "cdp error">>))
             /\ UNCHANGED cdpAccounts
    /\ UNCHANGED <<wallets, ledger, cdpSmart, req, resp, platform>>

\* the test made on the symbol as written, without lower-casing, and without
\* the zero address
NeedsApprovalSymbolOnly(from_token) == from_token # "ETH"

\* if from_token.lower() not in [zero address, "eth"]: approve first
NeedsApproval(from_token) == Lower(from_token) \notin {ZERO_ADDRESS, "eth"}

\* smart_account = await cdp_client.evm.get_or_create_smart_account(name, owner)
HandlerSmart(p) ==
    /\ pc[p] = "h_smart"
    /\ LET name == OwnerNameOf(loc[p].wallet)
       IN \/ /\ cdpSmart' = cdpSmart \cup {get_or_create_smart_account(name)}
             /\ loc' = [Called(p, "get_or_create_smart_account", TRUE) EXCEPT ![p].smart = get_or_create_smart_account(name)]
             /\ pc' = [pc EXCEPT ![p] =
                   IF req[p].action = "transfer" THEN "t_send"
                   ELSE IF NeedsApproval(req[p].params.from_token) THEN "s_approve"
                   ELSE "s_swap"]
          \/ /\ HandlerRaises(p, Called(p, "get_or_create_smart_account", FALSE),
                              HTTPException(500, <<"Failed to retrieve smart account: ", "cdp error">>))
             /\ UNCHANGED cdpSmart
    /\ UNCHANGED <<wallets, ledger, cdpAccounts, req, resp, platform>>

\* what a submission returns
UserOp(p, kind) ==
    [user_op_hash |-> [hash |-> "userop", by |-> p, kind |-> kind], status |-> "broadcast"]

TxHash(op) == [hash |-> "tx", of |-> op.user_op_hash]

Explorer(transaction_hash) ==
    IF transaction_hash # None THEN [url |-> "https://basescan.org/tx/", tx |-> transaction_hash]
    ELSE None

\* the statuses a confirmation reports
ReceiptStatuses == {"complete", "failed"}

\* a submission the Wallet Service accepted
Submitted(p, call, op) == [Called(p, call, TRUE) EXCEPT ![p].ops = Append(@, op)]

\* TransferSend under a lock per room: held back while another dispatch on
\* the room has submitted and not yet finalized its record
TransferSendExclusive(p) ==
    /\ pc[p] = "t_send"
    /\ \A q \in Procs \ {p} :
          ~(/\ req[q].kind = "dispatch" /\ req[q].room_id = req[p].room_id
            /\ pc[q] \in {"t_wait", "s_approve_wait", "s_swap", "s_wait", "d_success", "d_http", "d_exc"}
            /\ loc[q].ops # <<>>)
    /\ \/ /\ loc' = [Submitted(p, "send_user_operation",
                        [kind |-> "transfer", account |-> loc[p].smart.address,
                         to |-> req[p].params.to_address, value |-> req[p].params.amount])
                     EXCEPT ![p].op = UserOp(p, "transfer")]
          /\ pc' = [pc EXCEPT ![p] = "t_wait"]
       \/ HandlerRaises(p, Called(p, "send_user_operation", FALSE),
                        HTTPException(500, <<"Failed to send user operation: ", "cdp error">>))
    /\ UNCHANGED <<wallets, ledger, cdpAccounts, cdpSmart, req, resp, platform>>

\* TransferSend with a failed submission answered like a failed wait: the
\* handler returns a result without an operation hash
TransferSendUnchecked(p) ==
    /\ pc[p] = "t_send"
    /\ \/ /\ loc' = [Submitted(p, "send_user_operation",
                        [kind |-> "transfer", account |-> loc[p].smart.address,
                         to |-> req[p].params.to_address, value |-> req[p].params.amount])
                     EXCEPT ![p].op = UserOp(p, "transfer")]
          /\ pc' = [pc EXCEPT ![p] = "t_wait"]
       \/ HandlerReturns(p, Called(p, "send_user_operation", FALSE),
                [user_op_hash |-> None, transaction_hash |-> None,
                 status |-> "pending", block_explorer |-> None])
    /\ UNCHANGED <<wallets, ledger, cdpAccounts, cdpSmart, req, resp, platform>>

\* user_operation = await cdp_client.evm.send_user_operation(...)
TransferSend(p) ==
    /\ pc[p] = "t_send"
    /\ \/ /\ loc' = [Submitted(p, "send_user_operation",
                        [kind |-> "transfer", account |-> loc[p].smart.address,
                         to |-> req[p].params.to_address, value |-> req[p].params.amount])
                     EXCEPT ![p].op = UserOp(p, "transfer")]
          /\ pc' = [pc EXCEPT ![p] = "t_wait"]
       \/ HandlerRaises(p, Called(p, "send_user_operation", FALSE),
                        HTTPException(500, <<"Failed to send user operation: ", "cdp error">>))
    /\ UNCHANGED <<wallets, ledger, cdpAccounts, cdpSmart, req, resp, platform>>

\* TransferWait with a failed wait raised instead of answered partially
TransferWaitRaising(p) ==
    /\ pc[p] = "t_wait"
    /\ LET op == loc[p].op
           l == Called(p, "wait_for_user_operation", TRUE)
       IN \/ HandlerRaises(p, Called(p, "wait_for_user_operation", FALSE),
                           HTTPException(500, <<"Failed to confirm user operation: ", "cdp error">>))
          \/ \E st \in ReceiptStatuses :
                LET tx == IF st = "complete" THEN TxHash(op) ELSE None IN
                HandlerReturns(p, l,
                    [user_op_hash |-> op.user_op_hash, transaction_hash |-> tx,
                     status |-> st, block_explorer |-> Explorer(tx)])
    /\ UNCHANGED <<wallets, ledger, cdpAccounts, cdpSmart, req, resp, platform>>

\* TransferWait reporting the receipt's transaction hash whatever its status
TransferWaitAnyStatus(p) ==
    /\ pc[p] = "t_wait"
    /\ LET op == loc[p].op
           l == Called(p, "wait_for_user_operation", TRUE)
       IN \/ HandlerReturns(p, Called(p, "wait_for_user_operation", FALSE),
                [user_op_hash |-> op.user_op_hash, transaction_hash |-> None,
                 status |-> op.status, block_explorer |-> None])
          \/ \E st \in ReceiptStatuses :
                HandlerReturns(p, l,
                    [user_op_hash |-> op.user_op_hash, transaction_hash |-> TxHash(op),
                     status |-> st, block_explorer |-> Explorer(TxHash(op))])
    /\ UNCHANGED <<wallets, ledger, cdpAccounts, cdpSmart, req, resp, platform>>

\* confirmed = await cdp_client.evm.wait_for_user_operation(...)
TransferWait(p) ==
    /\ pc[p] = "t_wait"
    /\ LET op == loc[p].op
           l == Called(p, "wait_for_user_operation", TRUE)
       IN \/ HandlerReturns(p, Called(p, "wait_for_user_operation", FALSE),
                [user_op_hash |-> op.user_op_hash, transaction_hash |-> None,
                 status |-> op.status, block_explorer |-> None])
          \/ \E st \in ReceiptStatuses :
                LET tx == IF st = "complete" THEN TxHash(op) ELSE None IN
                HandlerReturns(p, l,
                    [user_op_hash |-> op.user_op_hash, transaction_hash |-> tx,
                     status |-> st, block_explorer |-> Explorer(tx)])
    /\ UNCHANGED <<wallets, ledger, cdpAccounts, cdpSmart, req, resp, platform>>

ApproveError == HTTPException(500, <<"Failed to approve Permit2: ", "error">>)

\* approval_op = await cdp_client.evm.send_user_operation(approve(permit2, int(amount) * 10))
SwapApprove(p) ==
    /\ pc[p] = "s_approve"
    /\ IF ~IsIntLiteral(req[p].params.amount)
       THEN HandlerRaises(p, loc, ApproveError)
       ELSE \/ /\ loc' = Submitted(p, "send_user_operation",
                            [kind |-> "approve", account |-> loc[p].smart.address,
                             to |-> req[p].params.from_token, spender |-> PERMIT2_ADDRESS,
                             allowance |-> IntOf(req[p].params.amount) * 10])
               /\ pc' = [pc EXCEPT ![p] = "s_approve_wait"]
            \/ HandlerRaises(p, Called(p, "send_user_operation", FALSE), ApproveError)
    /\ UNCHANGED <<wallets, ledger, cdpAccounts, cdpSmart, req, resp, platform>>

\* await cdp_client.evm.wait_for_user_operation(approval_op)
SwapApproveWait(p) ==
    /\ pc[p] = "s_approve_wait"
    /\ \/ /\ loc' = Called(p, "wait_for_user_operation", TRUE)
          /\ pc' = [pc EXCEPT ![p] = "s_swap"]
       \/ HandlerRaises(p, Called(p, "wait_for_user_operation", FALSE), ApproveError)
    /\ UNCHANGED <<wallets, ledger, cdpAccounts, cdpSmart, req, resp, platform>>

\* result = await smart_account.swap(swap_options)
SwapSubmit(p) ==
    /\ pc[p] = "s_swap"
    /\ \/ /\ loc' = [Submitted(p, "swap",
                        [kind |-> "swap", account |-> loc[p].smart.address,
                         from_token |-> req[p].params.from_token,
                         to_token |-> req[p].params.to_token,
                         from_amount |-> req[p].params.amount])
                     EXCEPT ![p].op = UserOp(p, "swap")]
          /\ pc' = [pc EXCEPT ![p] = "s_wait"]
       \/ HandlerRaises(p, Called(p, "swap", FALSE),
                        HTTPException(500, <<"Failed to execute swap: ", "cdp error">>))
    /\ UNCHANGED <<wallets, ledger, cdpAccounts, cdpSmart, req, resp, platform>>

SwapResult(p, op, transaction_hash, st) ==
    [user_op_hash |-> op.user_op_hash, transaction_hash |-> transaction_hash,
     status |-> st, from_token |-> req[p].params.from_token,
     to_token |-> req[p].params.to_token, from_amount |-> req[p].params.amount,
     block_explorer |-> Explorer(transaction_hash)]

\* receipt = await smart_account.wait_for_user_operation(user_op_hash)
SwapWait(p) ==
    /\ pc[p] = "s_wait"
    /\ LET op == loc[p].op
           l == Called(p, "wait_for_user_operation", TRUE)
       IN \/ HandlerReturns(p, Called(p, "wait_for_user_operation", FALSE),
                            SwapResult(p, op, None, "pending"))
          \/ \E st \in ReceiptStatuses :
                HandlerReturns(p, l,
                    SwapResult(p, op, IF st = "complete" THEN TxHash(op) ELSE None, st))
    /\ UNCHANGED <<wallets, ledger, cdpAccounts, cdpSmart, req, resp, platform>>

Handler(p) ==
    \/ HandlerStart(p)
    \/ HandlerOwner(p)
    \/ HandlerSmart(p)
    \/ TransferSend(p)
    \/ TransferWait(p)
    \/ SwapApprove(p)
    \/ SwapApproveWait(p)
    \/ SwapSubmit(p)
    \/ SwapWait(p)

\* --------------------------------------------------------- finalization
\* the status written when the handler returned / when it raised
SuccessStatus == "success"

FailedStatus == "failed"

\* FinalizeSuccess whose write is applied and raises all the same
FinalizeSuccessAppliedRaising(p) ==
    /\ pc[p] = "d_success"
    /\ ledger' = update_transaction(loc[p].txid, SuccessStatus, loc[p].result, None)
    /\ \/ /\ pc' = [pc EXCEPT ![p] = "done"]
          /\ resp' = [resp EXCEPT ![p] =
                [code |-> 200, detail |-> <<>>, success |-> TRUE,
                 result |-> loc[p].result, transaction_id |-> loc[p].txid]]
          /\ UNCHANGED loc
       \/ /\ loc' = [loc EXCEPT ![p].exc = DbError]
          /\ pc' = [pc EXCEPT ![p] = ExceptPc(DbError)]
          /\ UNCHANGED resp
    /\ UNCHANGED <<wallets, cdpAccounts, cdpSmart, req, platform>>

\* await update_transaction(transaction_id, "success", result); return the response
FinalizeSuccess(p) ==
    /\ pc[p] = "d_success"
    /\ \/ /\ ledger' = update_transaction(loc[p].txid, SuccessStatus, loc[p].result, None)
          /\ pc' = [pc EXCEPT ![p] = "done"]
          /\ resp' = [resp EXCEPT ![p] =
                [code |-> 200, detail |-> <<>>, success |-> TRUE,
                 result |-> loc[p].result, transaction_id |-> loc[p].txid]]
          /\ UNCHANGED loc
       \/ /\ loc' = [loc EXCEPT ![p].exc = DbError]
          /\ pc' = [pc EXCEPT ![p] = ExceptPc(DbError)]
          /\ UNCHANGED <<ledger, resp>>
    /\ UNCHANGED <<wallets, cdpAccounts, cdpSmart, req, platform>>

\* except HTTPException as e: update_transaction(failed, str(e.detail)); raise
FinalizeHTTPException(p) ==
    /\ pc[p] = "d_http"
    /\ \/ /\ ledger' = update_transaction(loc[p].txid, FailedStatus, None, ErrorText(loc[p].exc.detail))
          /\ Raise(p, loc[p].exc)
       \/ /\ Raise(p, DbError)
          /\ UNCHANGED ledger
    /\ UNCHANGED <<wallets, cdpAccounts, cdpSmart, req, loc, platform>>

\* except Exception as e: update_transaction(failed, str(e)); raise a 500
FinalizeException(p) ==
    /\ pc[p] = "d_exc"
    /\ \/ /\ ledger' = update_transaction(loc[p].txid, FailedStatus, None, ErrorText(loc[p].exc.detail))
          /\ Raise(p, HTTPException(500, Prefixed("Failed to execute action: ", loc[p].exc)))
       \/ /\ Raise(p, DbError)
          /\ UNCHANGED ledger
    /\ UNCHANGED <<wallets, cdpAccounts, cdpSmart, req, loc, platform>>

Dispatch(p) ==
    \/ StartDispatch(p)
    \/ DispatchCheck(p)
    \/ DispatchLog(p)
    \/ Handler(p)
    \/ FinalizeSuccess(p)
    \/ FinalizeHTTPException(p)
    \/ FinalizeException(p)

Next == \E p \in Procs : Provision(p) \/ Dispatch(p)

Spec == Init /\ [][Next]_vars

\* the same requests against a store that has a wallet of the old schema
SpecLegacy == InitLegacy /\ [][Next]_vars
\* ==================================================================
\* Platform API (modal_app.py): POST /rooms, POST /agents,
\* DELETE /agents/{agent_id}.  Every blocking call (text generation, wallet
\* API, Agent Runtime, datastore) is one step; a call to a remote system
\* that raises or is answered with an error may or may not have taken
\* effect there.  ELIZA_SERVER_URL and WALLET_API_URL are set by the
\* deployment (modal_app.py:194-198).
\* ==================================================================
\* the stores of the wallet API, which POST /rooms reaches through POST /wallets
walletStores == <<wallets, cdpAccounts, cdpSmart>>

\* room_id = str(uuid.uuid4()): an id no other request has
Uuid(p) == "uuid-" \o ToString(p)

\* the id the Agent Runtime gives the agent it creates for request p
ElizaAgentId(p) == "agent-" \o ToString(p)

\* the id the Agent Runtime gives the room it creates for request p
ElizaRoomId(p) == "room-" \o ToString(p)

\* the id the datastore generates for the platform_agents row request p inserts
AgentRowId(p) == "row-" \o ToString(p)

\* a platform_agents row
AgentRow(id, user_id, eliza_agent_id, by) ==
    [id |-> id, user_id |-> user_id, eliza_agent_id |-> eliza_agent_id,
     status |-> "active", by |-> by]

\* The agent an earlier POST /agents of user u1 stored, and its remote agent.
AgentBefore == AgentRow("row-0", "u1", "agent-0", 0)

\* a platform_rooms row (room_db_data)
RoomRow(id, user_id, eliza_room_id, strategy_agent_id, wallet_address, smart_account_address, by) ==
    [id |-> id, user_id |-> user_id, eliza_room_id |-> eliza_room_id,
     strategy_agent_id |-> strategy_agent_id, wallet_address |-> wallet_address,
     smart_account_address |-> smart_account_address, status |-> "active", by |-> by]

PlatformLocals ==
    [calls |-> <<>>, generated_strategy |-> Missing,
     wallet_address |-> None, smart_account_address |-> None,
     strategy_agent_id |-> Missing, additional |-> {}, eliza_room_id |-> Missing,
     db_room |-> None, eliza_agent_id |-> Missing]

InitPlatform ==
    /\ \E stored \in BOOLEAN :
          /\ platformAgents = (IF stored THEN {AgentBefore} ELSE {})
          /\ elizaAgents = (IF stored THEN {AgentBefore.eliza_agent_id} ELSE {})
          /\ elizaStarted = (IF stored THEN {AgentBefore.eliza_agent_id} ELSE {})
    /\ platformRooms = {} /\ elizaRooms = {}
    /\ wallets = {} /\ cdpAccounts = {} /\ cdpSmart = {}
    /\ ledger = <<>>
    /\ pc = [p \in Procs |-> "idle"]
    /\ req = [p \in Procs |-> NoRequest]
    /\ loc = [p \in Procs |-> PlatformLocals]
    /\ resp = [p \in Procs |-> None]

\* raise HTTPException(status_code, detail), rendered by http_exception_handler
PlatformRaise(p, code, detail) ==
    /\ pc' = [pc EXCEPT ![p] = "done"]
    /\ resp' = [resp EXCEPT ![p] =
          [code |-> code, success |-> FALSE, error |-> detail, result |-> None]]

\* ------------------------------------------------------------ POST /rooms
\* The ids a caller may pass as agent_ids: none, or the stored agent.
StartCreateRoom(p) ==
    /\ MayStart(p)
    /\ \E ids \in {{}, {AgentBefore.id}} :
          req' = [req EXCEPT ![p] =
                    [kind |-> "create_room", user_id |-> "u1",
                     room_id |-> Uuid(p), agent_ids |-> ids]]
    /\ pc' = [pc EXCEPT ![p] = "s_generate"]
    /\ UNCHANGED <<walletStores, ledger, loc, resp, platform>>

\* Step 1 going on with the user's prompt when the generation fails
SagaGenerateFallback(p) ==
    /\ pc[p] = "s_generate"
    /\ \/ loc' = [Called(p, "generate_strategy_prompt", TRUE) EXCEPT
                     ![p].generated_strategy = "strategy"]
       \/ loc' = [Called(p, "generate_strategy_prompt", FALSE) EXCEPT
                     ![p].generated_strategy = "prompt"]
    /\ pc' = [pc EXCEPT ![p] = "s_wallet"]
    /\ UNCHANGED <<walletStores, ledger, req, resp, platform>>

\* Step 1: generated_strategy = generate_strategy_prompt(user_prompt)
SagaGenerate(p) ==
    /\ pc[p] = "s_generate"
    /\ \/ /\ loc' = [Called(p, "generate_strategy_prompt", TRUE) EXCEPT
                        ![p].generated_strategy = "strategy"]
          /\ pc' = [pc EXCEPT ![p] = "s_wallet"]
          /\ UNCHANGED resp
       \/ /\ loc' = Called(p, "generate_strategy_prompt", FALSE)
          /\ PlatformRaise(p, 500, <<"Failed to generate AI strategy: ",
                                     "OpenAI strategy generation failed">>)
    /\ UNCHANGED <<walletStores, ledger, req, platform>>

\* What POST /wallets {room_id} has done when it got as far as step k of
\* create_wallet_endpoint: 1 the owner account, 2 the smart account, 3 the row.
WalletApiDone(p, room_id, k) ==
    LET name == owner_account_name_of(room_id)
        owner == get_or_create_account(name)
        smart == get_or_create_smart_account(name)
    IN /\ cdpAccounts' = (IF k >= 1 THEN cdpAccounts \cup {owner} ELSE cdpAccounts)
       /\ cdpSmart' = (IF k >= 2 THEN cdpSmart \cup {smart} ELSE cdpSmart)
       /\ wallets' = (IF k >= 3
                      THEN wallets \cup {WalletRow(room_id, name, owner.address, smart.address, NETWORK, p)}
                      ELSE wallets)

\* Step 2 with a failed wallet request printed and the saga going on
SagaWalletSwallowed(p) ==
    /\ pc[p] = "s_wallet"
    /\ LET r == req[p].room_id
           name == owner_account_name_of(r)
       IN \/ /\ WalletApiDone(p, r, 3)
             /\ loc' = [Called(p, "POST /wallets", TRUE) EXCEPT
                           ![p].wallet_address = get_or_create_account(name).address,
                           ![p].smart_account_address = get_or_create_smart_account(name).address]
          \/ /\ \E k \in 0 .. 2 : WalletApiDone(p, r, k)
             /\ loc' = Called(p, "POST /wallets", FALSE)
    /\ pc' = [pc EXCEPT ![p] = "s_agent"]
    /\ UNCHANGED <<ledger, req, resp, platform>>

\* Step 2: wallet_response = requests.post(f"{wallet_api_url}/wallets", ...)
SagaWallet(p) ==
    /\ pc[p] = "s_wallet"
    /\ LET r == req[p].room_id
           name == owner_account_name_of(r)
       IN \/ /\ WalletApiDone(p, r, 3)
             /\ loc' = [Called(p, "POST /wallets", TRUE) EXCEPT
                           ![p].wallet_address = get_or_create_account(name).address,
                           ![p].smart_account_address = get_or_create_smart_account(name).address]
             /\ pc' = [pc EXCEPT ![p] = "s_agent"]
             /\ UNCHANGED resp
          \/ /\ \E k \in 0 .. 3 : WalletApiDone(p, r, k)
             /\ loc' = Called(p, "POST /wallets", FALSE)
             /\ PlatformRaise(p, 500, <<"Failed to create wallet: ", "Wallet API error">>)
    /\ UNCHANGED <<ledger, req, platform>>

\* Step 3: agent_response = requests.post(/api/agents); the id it returned
SagaAgent(p) ==
    /\ pc[p] = "s_agent"
    /\ \/ /\ elizaAgents' = elizaAgents \cup {ElizaAgentId(p)}
          /\ loc' = [Called(p, "POST /api/agents", TRUE) EXCEPT
                        ![p].strategy_agent_id = ElizaAgentId(p)]
          /\ pc' = [pc EXCEPT ![p] = "s_start"]
          /\ UNCHANGED resp
       \/ /\ \E created \in BOOLEAN :
                elizaAgents' = (IF created THEN elizaAgents \cup {ElizaAgentId(p)} ELSE elizaAgents)
          /\ loc' = Called(p, "POST /api/agents", FALSE)
          /\ PlatformRaise(p, 500, <<"Failed to create strategy agent: ",
                                     "ElizaOS agent creation error">>)
    /\ UNCHANGED <<walletStores, ledger, req, platformAgents, platformRooms, elizaStarted, elizaRooms>>

\* Step 4 with a failed start raised
SagaStartFatal(p) ==
    /\ pc[p] = "s_start"
    /\ \/ /\ elizaStarted' = elizaStarted \cup {loc[p].strategy_agent_id}
          /\ loc' = Called(p, "POST /api/agents/start", TRUE)
          /\ pc' = [pc EXCEPT ![p] = IF req[p].agent_ids # {} THEN "s_lookup" ELSE "s_room"]
          /\ UNCHANGED resp
       \/ /\ loc' = Called(p, "POST /api/agents/start", FALSE)
          /\ PlatformRaise(p, 500, <<"Failed to start strategy agent: ", "ElizaOS error">>)
          /\ UNCHANGED elizaStarted
    /\ UNCHANGED <<walletStores, ledger, req, platformAgents, platformRooms, elizaAgents, elizaRooms>>

\* Step 4: start_response = requests.post(/api/agents/{id}/start); a failure
\* is printed
SagaStart(p) ==
    /\ pc[p] = "s_start"
    /\ \/ /\ elizaStarted' = elizaStarted \cup {loc[p].strategy_agent_id}
          /\ loc' = Called(p, "POST /api/agents/start", TRUE)
       \/ /\ loc' = Called(p, "POST /api/agents/start", FALSE)
          /\ UNCHANGED elizaStarted
    /\ pc' = [pc EXCEPT ![p] = IF req[p].agent_ids # {} THEN "s_lookup" ELSE "s_room"]
    /\ UNCHANGED <<walletStores, ledger, req, resp, platformAgents, platformRooms, elizaAgents, elizaRooms>>

\* Step 5, if agent_ids were given: select eliza_agent_id from platform_agents
SagaLookup(p) ==
    /\ pc[p] = "s_lookup"
    /\ \/ /\ loc' = [Called(p, "select platform_agents", TRUE) EXCEPT
                        ![p].additional =
                            {a.eliza_agent_id : a \in {b \in platformAgents : b.id \in req[p].agent_ids}}]
          /\ pc' = [pc EXCEPT ![p] = "s_room"]
          /\ UNCHANGED resp
       \/ /\ loc' = Called(p, "select platform_agents", FALSE)
          /\ PlatformRaise(p, 500, <<"Failed to create ElizaOS room: ", "datastore error">>)
    /\ UNCHANGED <<walletStores, ledger, req, platform>>

\* Step 5 with a failed room creation printed and the saga going on
SagaRoomSwallowed(p) ==
    /\ pc[p] = "s_room"
    /\ LET room == [id |-> ElizaRoomId(p),
                    agentIds |-> {loc[p].strategy_agent_id} \cup loc[p].additional]
       IN \/ /\ elizaRooms' = elizaRooms \cup {room}
             /\ loc' = [Called(p, "POST /api/rooms", TRUE) EXCEPT ![p].eliza_room_id = room.id]
          \/ /\ loc' = Called(p, "POST /api/rooms", FALSE)
             /\ UNCHANGED elizaRooms
    /\ pc' = [pc EXCEPT ![p] = "s_persist_room"]
    /\ UNCHANGED <<walletStores, ledger, req, resp, platformAgents, platformRooms, elizaAgents, elizaStarted>>

\* Step 5: room_response = requests.post(/api/rooms, agentIds = ...)
SagaRoom(p) ==
    /\ pc[p] = "s_room"
    /\ LET room == [id |-> ElizaRoomId(p),
                    agentIds |-> {loc[p].strategy_agent_id} \cup loc[p].additional]
       IN \/ /\ elizaRooms' = elizaRooms \cup {room}
             /\ loc' = [Called(p, "POST /api/rooms", TRUE) EXCEPT ![p].eliza_room_id = room.id]
             /\ pc' = [pc EXCEPT ![p] = "s_persist_room"]
             /\ UNCHANGED resp
          \/ /\ \E created \in BOOLEAN :
                   elizaRooms' = (IF created THEN elizaRooms \cup {room} ELSE elizaRooms)
             /\ loc' = Called(p, "POST /api/rooms", FALSE)
             /\ PlatformRaise(p, 500, <<"Failed to create ElizaOS room: ",
                                        "ElizaOS room creation error">>)
    /\ UNCHANGED <<walletStores, ledger, req, platformAgents, platformRooms, elizaAgents, elizaStarted>>

\* Step 6 undoing the remote room and the remote agent when the insert fails
SagaPersistRoomCompensating(p) ==
    /\ pc[p] = "s_persist_room"
    /\ LET row == RoomRow(req[p].room_id, req[p].user_id, loc[p].eliza_room_id,
                          loc[p].strategy_agent_id, loc[p].wallet_address,
                          loc[p].smart_account_address, p)
       IN \/ /\ platformRooms' = platformRooms \cup {row}
             /\ loc' = [Called(p, "insert platform_rooms", TRUE) EXCEPT ![p].db_room = row]
             /\ pc' = [pc EXCEPT ![p] = "s_persist_agent"]
             /\ UNCHANGED <<resp, elizaAgents, elizaStarted, elizaRooms>>
          \/ /\ loc' = [loc EXCEPT ![p].calls =
                           @ \o <<[call |-> "insert platform_rooms", ok |-> FALSE],
                                  [call |-> "DELETE /api/agents", ok |-> TRUE]>>]
             /\ elizaAgents' = elizaAgents \ {loc[p].strategy_agent_id}
             /\ elizaStarted' = elizaStarted \ {loc[p].strategy_agent_id}
             /\ elizaRooms' = {r \in elizaRooms : r.id # loc[p].eliza_room_id}
             /\ PlatformRaise(p, 500, <<"Failed to store room in database: ", "datastore error">>)
             /\ UNCHANGED platformRooms
    /\ UNCHANGED <<walletStores, ledger, req, platformAgents>>

\* Step 6 with a failed insert printed and the saga going on to step 7
SagaPersistRoomSwallowed(p) ==
    /\ pc[p] = "s_persist_room"
    /\ LET row == RoomRow(req[p].room_id, req[p].user_id, loc[p].eliza_room_id,
                          loc[p].strategy_agent_id, loc[p].wallet_address,
                          loc[p].smart_account_address, p)
       IN \/ /\ platformRooms' = platformRooms \cup {row}
             /\ loc' = [Called(p, "insert platform_rooms", TRUE) EXCEPT ![p].db_room = row]
          \/ /\ loc' = Called(p, "insert platform_rooms", FALSE)
             /\ UNCHANGED platformRooms
    /\ pc' = [pc EXCEPT ![p] = "s_persist_agent"]
    /\ UNCHANGED <<walletStores, ledger, req, resp, platformAgents, elizaAgents, elizaStarted, elizaRooms>>

\* Step 6: supabase.table("platform_rooms").insert(room_db_data)
SagaPersistRoom(p) ==
    /\ pc[p] = "s_persist_room"
    /\ LET row == RoomRow(req[p].room_id, req[p].user_id, loc[p].eliza_room_id,
                          loc[p].strategy_agent_id, loc[p].wallet_address,
                          loc[p].smart_account_address, p)
       IN \/ /\ platformRooms' = platformRooms \cup {row}
             /\ loc' = [Called(p, "insert platform_rooms", TRUE) EXCEPT ![p].db_room = row]
             /\ pc' = [pc EXCEPT ![p] = "s_persist_agent"]
             /\ UNCHANGED resp
          \/ /\ loc' = Called(p, "insert platform_rooms", FALSE)
             /\ PlatformRaise(p, 500, <<"Failed to store room in database: ", "datastore error">>)
             /\ UNCHANGED platformRooms
    /\ UNCHANGED <<walletStores, ledger, req, platformAgents, elizaAgents, elizaStarted, elizaRooms>>

\* Step 7: supabase.table("platform_agents").insert(agent_db_data), a failure
\* is printed; Step 8: the room view of db_room
SagaPersistAgent(p) ==
    /\ pc[p] = "s_persist_agent"
    /\ \/ /\ platformAgents' = platformAgents \cup
                {AgentRow(AgentRowId(p), req[p].user_id, loc[p].strategy_agent_id, p)}
          /\ loc' = Called(p, "insert platform_agents", TRUE)
       \/ /\ loc' = Called(p, "insert platform_agents", FALSE)
          /\ UNCHANGED platformAgents
    /\ pc' = [pc EXCEPT ![p] = "done"]
    /\ resp' = [resp EXCEPT ![p] =
          [code |-> 201, success |-> TRUE, error |-> <<>>, result |-> loc[p].db_room]]
    /\ UNCHANGED <<walletStores, ledger, req, platformRooms, elizaAgents, elizaStarted, elizaRooms>>

CreateRoom(p) ==
    \/ StartCreateRoom(p)
    \/ SagaGenerate(p)
    \/ SagaWallet(p)
    \/ SagaAgent(p)
    \/ SagaStart(p)
    \/ SagaLookup(p)
    \/ SagaRoom(p)
    \/ SagaPersistRoom(p)
    \/ SagaPersistAgent(p)

\* ----------------------------------------------------------- POST /agents
\* str.strip(), on the names a request uses
Strip(text) ==
    CASE text = "a  " -> "a"
      [] OTHER -> text

\* validate_agent_input: the error message, "" when the input is valid
validate_agent_input(name, description, user_id) ==
    IF user_id = "" THEN "user_id is required and must be a non-empty string"
    ELSE IF name = "" THEN "name is required and must be a string"
    ELSE IF Len(Strip(name)) < 3 THEN "name must be at least 3 characters long"
    ELSE IF Len(Strip(name)) > 50 THEN "name must be 50 characters or less"
    ELSE IF description = "" THEN "description is required and must be a string"
    ELSE IF Len(Strip(description)) < 10 THEN "description must be at least 10 characters long"
    ELSE IF Len(Strip(description)) > 500 THEN "description must be 500 characters or less"
    ELSE ""

\* the agents a caller asks for (CreateAgentRequest: name of 3 to 50
\* characters, description of 10 to 500): a valid one, and one whose name is
\* too short once stripped
CreateAgentInputs ==
    { [name |-> "Trader", description |-> "trades the dip"],
      [name |-> "a  ", description |-> "trades the dip"] }

\* validate the input, generate the character config
StartCreateAgent(p) ==
    /\ MayStart(p)
    /\ \E i \in CreateAgentInputs :
          /\ req' = [req EXCEPT ![p] =
                       [kind |-> "create_agent", user_id |-> "u1",
                        name |-> i.name, description |-> i.description]]
          /\ LET error_msg == validate_agent_input(i.name, i.description, "u1") IN
             IF error_msg # ""
             THEN PlatformRaise(p, 400, <<error_msg>>)
             ELSE /\ pc' = [pc EXCEPT ![p] = "a_create"]
                  /\ UNCHANGED resp
    /\ UNCHANGED <<walletStores, ledger, loc, platform>>

\* the statuses create_agent answers a failed creation with: 502 for a
\* requests.exceptions.RequestException, 500 for anything else
CreateFailures ==
    { [code |-> 502, detail |-> <<"Failed to communicate with ElizaOS server: ", "timeout">>],
      [code |-> 500, detail |-> <<"Failed to create agent in ElizaOS: ", "ElizaOS API error">>] }

\* create_agent inserting its row whether or not the Agent Runtime made the agent
CreateAgentRemoteUnchecked(p) ==
    /\ pc[p] = "a_create"
    /\ \/ /\ elizaAgents' = elizaAgents \cup {ElizaAgentId(p)}
          /\ loc' = [Called(p, "POST /api/agents", TRUE) EXCEPT
                        ![p].eliza_agent_id = ElizaAgentId(p)]
       \/ /\ loc' = Called(p, "POST /api/agents", FALSE)
          /\ UNCHANGED elizaAgents
    /\ pc' = [pc EXCEPT ![p] = "a_start"]
    /\ UNCHANGED <<walletStores, ledger, req, resp, platformAgents, platformRooms, elizaStarted, elizaRooms>>

\* create_response = requests.post(/api/agents); the id it returned
CreateAgentRemote(p) ==
    /\ pc[p] = "a_create"
    /\ \/ /\ elizaAgents' = elizaAgents \cup {ElizaAgentId(p)}
          /\ loc' = [Called(p, "POST /api/agents", TRUE) EXCEPT
                        ![p].eliza_agent_id = ElizaAgentId(p)]
          /\ pc' = [pc EXCEPT ![p] = "a_start"]
          /\ UNCHANGED resp
       \/ /\ \E created \in BOOLEAN :
                elizaAgents' = (IF created THEN elizaAgents \cup {ElizaAgentId(p)} ELSE elizaAgents)
          /\ loc' = Called(p, "POST /api/agents", FALSE)
          /\ \E f \in CreateFailures : PlatformRaise(p, f.code, f.detail)
    /\ UNCHANGED <<walletStores, ledger, req, platformAgents, platformRooms, elizaStarted, elizaRooms>>

\* start_response = requests.post(/api/agents/{id}/start); a failure is printed
CreateAgentStart(p) ==
    /\ pc[p] = "a_start"
    /\ \/ /\ elizaStarted' = elizaStarted \cup {loc[p].eliza_agent_id}
          /\ loc' = Called(p, "POST /api/agents/start", TRUE)
       \/ /\ loc' = Called(p, "POST /api/agents/start", FALSE)
          /\ UNCHANGED elizaStarted
    /\ pc' = [pc EXCEPT ![p] = "a_insert"]
    /\ UNCHANGED <<walletStores, ledger, req, resp, platformAgents, platformRooms, elizaAgents, elizaRooms>>

\* result = supabase.table("platform_agents").insert(agent_data)
CreateAgentInsert(p) ==
    /\ pc[p] = "a_insert"
    /\ LET row == AgentRow(AgentRowId(p), req[p].user_id, loc[p].eliza_agent_id, p)
       IN \/ /\ platformAgents' = platformAgents \cup {row}
             /\ loc' = Called(p, "insert platform_agents", TRUE)
             /\ pc' = [pc EXCEPT ![p] = "done"]
             /\ resp' = [resp EXCEPT ![p] =
                   [code |-> 201, success |-> TRUE, error |-> <<>>, result |-> row]]
          \/ /\ loc' = Called(p, "insert platform_agents", FALSE)
             /\ pc' = [pc EXCEPT ![p] = "a_cleanup"]
             /\ UNCHANGED <<platformAgents, resp>>
    /\ UNCHANGED <<walletStores, ledger, req, platformRooms, elizaAgents, elizaStarted, elizaRooms>>

\* the insert failed and the 500 is raised with the remote agent left as it is
CreateAgentNoCleanup(p) ==
    /\ pc[p] = "a_cleanup"
    /\ PlatformRaise(p, 500, <<"Failed to store agent in database: ", "datastore error">>)
    /\ UNCHANGED <<walletStores, ledger, req, loc, platform>>

\* the insert failed: requests.delete(/api/agents/{id}), whatever comes of
\* it, then the 500
CreateAgentCleanup(p) ==
    /\ pc[p] = "a_cleanup"
    /\ \/ /\ elizaAgents' = elizaAgents \ {loc[p].eliza_agent_id}
          /\ elizaStarted' = elizaStarted \ {loc[p].eliza_agent_id}
          /\ loc' = Called(p, "DELETE /api/agents", TRUE)
       \/ /\ loc' = Called(p, "DELETE /api/agents", FALSE)
          /\ UNCHANGED <<elizaAgents, elizaStarted>>
    /\ PlatformRaise(p, 500, <<"Failed to store agent in database: ", "datastore error">>)
    /\ UNCHANGED <<walletStores, ledger, req, platformAgents, platformRooms, elizaRooms>>

CreateAgent(p) ==
    \/ StartCreateAgent(p)
    \/ CreateAgentRemote(p)
    \/ CreateAgentStart(p)
    \/ CreateAgentInsert(p)
    \/ CreateAgentCleanup(p)

\* ----------------------------------------------- DELETE /agents/{agent_id}
\* the agent ids and user ids a caller sends
DeleteAgentInputs ==
    { [agent_id |-> a, user_id |-> u] :
        a \in {AgentBefore.id, AgentRowId(1)}, u \in {"u1", "u2", ""} }

\* if not user_id: 400
StartDeleteAgent(p) ==
    /\ MayStart(p)
    /\ \E i \in DeleteAgentInputs :
          /\ req' = [req EXCEPT ![p] =
                       [kind |-> "delete_agent", agent_id |-> i.agent_id, user_id |-> i.user_id]]
          /\ IF i.user_id = ""
             THEN PlatformRaise(p, 400, <<"user_id is required for ownership verification">>)
             ELSE /\ pc' = [pc EXCEPT ![p] = "x_lookup"]
                  /\ UNCHANGED resp
    /\ UNCHANGED <<walletStores, ledger, loc, platform>>

\* the lookup without .eq("user_id", user_id)
OwnedAgentsAnyUser(agent_id, user_id) ==
    {a \in platformAgents : a.id = agent_id}

\* select * from platform_agents where id = agent_id and user_id = user_id
OwnedAgents(agent_id, user_id) ==
    {a \in platformAgents : a.id = agent_id /\ a.user_id = user_id}

DeleteLookup(p) ==
    /\ pc[p] = "x_lookup"
    /\ LET found == OwnedAgents(req[p].agent_id, req[p].user_id)
       IN \/ /\ found = {}
             /\ loc' = Called(p, "select platform_agents", TRUE)
             /\ PlatformRaise(p, 404, <<"Agent not found or you don't have permission to delete it">>)
          \/ /\ found # {}
             /\ loc' = [Called(p, "select platform_agents", TRUE) EXCEPT
                           ![p].eliza_agent_id = (CHOOSE a \in found : TRUE).eliza_agent_id]
             /\ pc' = [pc EXCEPT ![p] = "x_stop"]
             /\ UNCHANGED resp
          \/ /\ loc' = Called(p, "select platform_agents", FALSE)
             /\ PlatformRaise(p, 500, <<"Failed to query database: ", "datastore error">>)
    /\ UNCHANGED <<walletStores, ledger, req, platform>>

\* stop_response = requests.post(/api/agents/{id}/stop); a failure is printed
DeleteStop(p) ==
    /\ pc[p] = "x_stop"
    /\ \/ /\ elizaStarted' = elizaStarted \ {loc[p].eliza_agent_id}
          /\ loc' = Called(p, "POST /api/agents/stop", TRUE)
       \/ /\ loc' = Called(p, "POST /api/agents/stop", FALSE)
          /\ UNCHANGED elizaStarted
    /\ pc' = [pc EXCEPT ![p] = "x_remote"]
    /\ UNCHANGED <<walletStores, ledger, req, resp, platformAgents, platformRooms, elizaAgents, elizaRooms>>

\* DeleteRemote ending the request when the Agent Runtime's delete fails
DeleteRemoteFatal(p) ==
    /\ pc[p] = "x_remote"
    /\ \/ /\ elizaAgents' = elizaAgents \ {loc[p].eliza_agent_id}
          /\ elizaStarted' = elizaStarted \ {loc[p].eliza_agent_id}
          /\ loc' = Called(p, "DELETE /api/agents", TRUE)
          /\ pc' = [pc EXCEPT ![p] = "x_delete"]
          /\ UNCHANGED resp
       \/ /\ loc' = Called(p, "DELETE /api/agents", FALSE)
          /\ PlatformRaise(p, 502, <<"Failed to delete agent from ElizaOS: ", "timeout">>)
          /\ UNCHANGED <<elizaAgents, elizaStarted>>
    /\ UNCHANGED <<walletStores, ledger, req, platformAgents, platformRooms, elizaRooms>>

\* delete_response = requests.delete(/api/agents/{id}); a failure is printed
DeleteRemote(p) ==
    /\ pc[p] = "x_remote"
    /\ \/ /\ elizaAgents' = elizaAgents \ {loc[p].eliza_agent_id}
          /\ elizaStarted' = elizaStarted \ {loc[p].eliza_agent_id}
          /\ loc' = Called(p, "DELETE /api/agents", TRUE)
       \/ /\ loc' = Called(p, "DELETE /api/agents", FALSE)
          /\ UNCHANGED <<elizaAgents, elizaStarted>>
    /\ pc' = [pc EXCEPT ![p] = "x_delete"]
    /\ UNCHANGED <<walletStores, ledger, req, resp, platformAgents, platformRooms, elizaRooms>>

\* supabase.table("platform_agents").delete().eq("id", agent_id)
DeleteLocal(p) ==
    /\ pc[p] = "x_delete"
    /\ \/ /\ platformAgents' = {a \in platformAgents : a.id # req[p].agent_id}
          /\ loc' = Called(p, "delete platform_agents", TRUE)
          /\ pc' = [pc EXCEPT ![p] = "done"]
          /\ resp' = [resp EXCEPT ![p] =
                [code |-> 200, success |-> TRUE, error |-> <<>>,
                 result |-> [agent_id |-> req[p].agent_id, message |-> "Agent deleted successfully"]]]
       \/ /\ loc' = Called(p, "delete platform_agents", FALSE)
          /\ PlatformRaise(p, 500, <<"Failed to delete agent from database: ", "datastore error">>)
          /\ UNCHANGED platformAgents
    /\ UNCHANGED <<walletStores, ledger, req, platformRooms, elizaAgents, elizaStarted, elizaRooms>>

DeleteAgent(p) ==
    \/ StartDeleteAgent(p)
    \/ DeleteLookup(p)
    \/ DeleteStop(p)
    \/ DeleteRemote(p)
    \/ DeleteLocal(p)

PlatformNext == \E p \in Procs : CreateRoom(p) \/ CreateAgent(p) \/ DeleteAgent(p)

PlatformSpec == InitPlatform /\ [][PlatformNext]_vars

\* ==================================================================
\* The platform API in a deployment whose ELIZA_SERVER_URL is not set:
\* get_tunnel_url raises (config.py:46-57), and so does get_eliza_api_url,
\* which calls it (config.py:347).  WALLET_API_URL is set.
\* ==================================================================
UrlNotSet == "ELIZA_SERVER_URL environment variable not set"

\* Step 3: create_agent_url = get_eliza_api_url("/api/agents") raises inside
\* the try, before requests.post
SagaAgentUrlNotSet(p) ==
    /\ pc[p] = "s_agent"
    /\ PlatformRaise(p, 500, <<"Failed to create strategy agent: ", UrlNotSet>>)
    /\ UNCHANGED <<walletStores, ledger, req, loc, platform>>

\* create_agent: tunnel_url = get_tunnel_url() raises: 503
CreateAgentUrlNotSet(p) ==
    /\ pc[p] = "a_create"
    /\ PlatformRaise(p, 503, <<"ElizaOS server not available. Please try again later.">>)
    /\ UNCHANGED <<walletStores, ledger, req, loc, platform>>

\* delete_agent: get_eliza_api_url raises inside the try of the stop call;
\* the exception is printed
DeleteStopUrlNotSet(p) ==
    /\ pc[p] = "x_stop"
    /\ pc' = [pc EXCEPT ![p] = "x_remote"]
    /\ UNCHANGED <<walletStores, ledger, req, loc, resp, platform>>

\* delete_agent: the same inside the try of the delete call
DeleteRemoteUrlNotSet(p) ==
    /\ pc[p] = "x_remote"
    /\ pc' = [pc EXCEPT ![p] = "x_delete"]
    /\ UNCHANGED <<walletStores, ledger, req, loc, resp, platform>>

UrlNotSetNext ==
    \E p \in Procs :
        \/ StartCreateRoom(p)
        \/ SagaGenerate(p)
        \/ SagaWallet(p)
        \/ SagaAgentUrlNotSet(p)
        \/ StartCreateAgent(p)
        \/ CreateAgentUrlNotSet(p)
        \/ StartDeleteAgent(p)
        \/ DeleteLookup(p)
        \/ DeleteStopUrlNotSet(p)
        \/ DeleteRemoteUrlNotSet(p)
        \/ DeleteLocal(p)

UrlNotSetSpec == InitPlatform /\ [][UrlNotSetNext]_vars

\* ==================================================================
\* Ledger query: GET /wallets/{room_id}/transactions (main.py) through
\* get_transactions (database.py).  The endpoint reads the ledger twice, for
\* the page and for the total; it is looked at in a quiet period, no
\* dispatch writing to the ledger while the queries run.  created_at is the
\* time of the insert, so the ledger's order is the order of created_at.
\* ==================================================================
\* if limit > 100: limit = 100
MAX_LIMIT == 100

\* limit=10000, "Large number to get all"
COUNT_LIMIT == 10000

Min(a, b) == IF a < b THEN a ELSE b

\* the row matches .eq("room_id", room_id) and, if status: .eq("status", status)
Matches(row, room_id, status) ==
    row.room_id = room_id /\ (Falsy(status) \/ row.status = status)

\* get_transactions ordering by created_at ascending
get_transactions_ascending(room_id, limit, offset, status) ==
    LET Match(row) == Matches(row, room_id, status)
        rows == SelectSeq(ledger, Match)
    IN SubSeq(rows, offset + 1, Min(offset + limit, Len(rows)))

\* get_transactions: .order("created_at", desc=True).range(offset, offset + limit - 1)
get_transactions(room_id, limit, offset, status) ==
    LET Match(row) == Matches(row, room_id, status)
        rows == SelectSeq(ledger, Match)
        n == Len(rows)
        first == offset + 1
        last == Min(offset + limit, n)
    IN [j \in 1 .. (IF last >= first THEN last - first + 1 ELSE 0) |->
            rows[n + 1 - (offset + j)]]

\* A row of an earlier dispatch, as it is stored once finalized or left pending.
StoredRecord(id, room_id, st) ==
    [TransactionRow(id, room_id, "balance", NoParams, "pending", 0) EXCEPT !.status = st]

\* The dispatches of a deployment's past, oldest first: the room and the
\* status each record ended with.
PastDispatches ==
    << [room_id |-> "r1", status |-> "success"],
       [room_id |-> "r2", status |-> "failed"],
       [room_id |-> "r1", status |-> "failed"],
       [room_id |-> "r1", status |-> "success"],
       [room_id |-> "r1", status |-> "pending"] >>

\* the ledger after the first n of them, left out those of rooms without wallet
LedgerAfter(n, rooms) ==
    LET Kept(d) == d.room_id \in rooms
        past == SelectSeq(SubSeq(PastDispatches, 1, n), Kept)
    IN [i \in 1 .. Len(past) |-> StoredRecord(i, past[i].room_id, past[i].status)]

\* the ledger of a room with more records than the count query asks for:
\* all success but the newest, which is pending
LongLedger ==
    [i \in 1 .. COUNT_LIMIT + 1 |->
        StoredRecord(i, "r1", IF i = COUNT_LIMIT + 1 THEN "pending" ELSE "success")]

HistoryLocals == [wallet |-> None, limit |-> 0, transactions |-> <<>>]

\* r1 has its wallet; r2 has one or none; the ledger holds the records of
\* the rooms with a wallet
InitLedgerQuery ==
    /\ \E k2 \in {"none", "stored"} :
          /\ StoresAre("stored", k2)
          /\ \/ \E n \in 0 .. Len(PastDispatches) :
                   ledger = LedgerAfter(n, {"r1"} \cup (IF k2 = "stored" THEN {"r2"} ELSE {}))
             \/ k2 = "none" /\ ledger = LongLedger
    /\ platformAgents = {} /\ platformRooms = {}
    /\ elizaAgents = {} /\ elizaStarted = {} /\ elizaRooms = {}
    /\ pc = [p \in Procs |-> "idle"]
    /\ req = [p \in Procs |-> NoRequest]
    /\ loc = [p \in Procs |-> HistoryLocals]
    /\ resp = [p \in Procs |-> None]

\* The queries asked: of r1 with a limit, an offset and a status filter or
\* none; of r2 with the defaults (limit 50, offset 0, no status).
HistoryInputs ==
    [room_id : {"r1"}, limit : {2, 150}, offset : {0, 1, 4}, status : {Missing, "success"}]
    \cup {[room_id |-> "r2", limit |-> 50, offset |-> 0, status |-> Missing]}

StartHistory(p) ==
    /\ MayStart(p)
    /\ \E i \in HistoryInputs :
          req' = [req EXCEPT ![p] =
                    [kind |-> "history", room_id |-> i.room_id, limit |-> i.limit,
                     offset |-> i.offset, status |-> i.status]]
    /\ pc' = [pc EXCEPT ![p] = "q_check"]
    /\ loc' = [loc EXCEPT ![p] = HistoryLocals]
    /\ UNCHANGED <<wallets, ledger, cdpAccounts, cdpSmart, resp, platform>>

\* wallet = await get_wallet(room_id); if not wallet: raise HTTPException(
\* status_code=status.HTTP_404_NOT_FOUND, ...), where status is the query
\* parameter (None or a string), not fastapi.status: the attribute lookup
\* raises AttributeError, which leaves the endpoint.  Then the limit is capped.
HistoryCheck(p) ==
    /\ pc[p] = "q_check"
    /\ IF get_wallet(req[p].room_id) = None
       THEN /\ Raise(p, PlainException(<<"AttributeError: HTTP_404_NOT_FOUND">>))
            /\ UNCHANGED loc
       ELSE /\ loc' = [loc EXCEPT ![p].wallet = get_wallet(req[p].room_id),
                                  ![p].limit = Min(req[p].limit, MAX_LIMIT)]
            /\ pc' = [pc EXCEPT ![p] = "q_page"]
            /\ UNCHANGED resp
    /\ UNCHANGED <<wallets, ledger, cdpAccounts, cdpSmart, req, platform>>

\* transactions = await get_transactions(room_id, limit, offset, status)
HistoryPage(p) ==
    /\ pc[p] = "q_page"
    /\ loc' = [loc EXCEPT ![p].transactions =
                  get_transactions(req[p].room_id, loc[p].limit, req[p].offset, req[p].status)]
    /\ pc' = [pc EXCEPT ![p] = "q_total"]
    /\ UNCHANGED <<wallets, ledger, cdpAccounts, cdpSmart, req, resp, platform>>

\* all_transactions = await get_transactions(room_id, 10000, 0, status);
\* total = len(all_transactions); return TransactionHistoryResponse(...)
HistoryTotal(p) ==
    /\ pc[p] = "q_total"
    /\ pc' = [pc EXCEPT ![p] = "done"]
    /\ resp' = [resp EXCEPT ![p] =
          [code |-> 200, detail |-> <<>>, success |-> TRUE, transaction_id |-> 0,
           result |-> [room_id |-> req[p].room_id,
                       transactions |-> loc[p].transactions,
                       total |-> Len(get_transactions(req[p].room_id, COUNT_LIMIT, 0, req[p].status)),
                       limit |-> loc[p].limit,
                       offset |-> req[p].offset]]]
    /\ UNCHANGED <<wallets, ledger, cdpAccounts, cdpSmart, req, loc, platform>>

transaction_history_endpoint(p) ==
    \/ StartHistory(p)
    \/ HistoryCheck(p)
    \/ HistoryPage(p)
    \/ HistoryTotal(p)

LedgerQueryNext == \E p \in Procs : transaction_history_endpoint(p)

LedgerQuerySpec == InitLedgerQuery /\ [][LedgerQueryNext]_vars

\* ==================================================================
\* The wallet API with its administration: delete_wallet (database.py) is
\* called by no endpoint; an operator runs it against the datastore while
\* the API serves provisions, dispatches and ledger queries.
\* ==================================================================
StartDeleteWallet(p) ==
    /\ MayStart(p)
    /\ \E r \in Rooms : req' = [req EXCEPT ![p] = [kind |-> "delete_wallet", room_id |-> r]]
    /\ pc' = [pc EXCEPT ![p] = "w_delete"]
    /\ UNCHANGED <<wallets, ledger, cdpAccounts, cdpSmart, loc, resp, platform>>

\* delete_wallet that also removes the accounts at the Wallet Service
delete_wallet_reclaiming(p) ==
    /\ pc[p] = "w_delete"
    /\ wallets' = wallets \ RowsOf(req[p].room_id)
    /\ cdpAccounts' = {a \in cdpAccounts : \A w \in RowsOf(req[p].room_id) : a.address # w.address}
    /\ cdpSmart' = {a \in cdpSmart :
                        \A w \in RowsOf(req[p].room_id) : a.address # w.smart_account_address}
    /\ pc' = [pc EXCEPT ![p] = "done"]
    /\ resp' = [resp EXCEPT ![p] =
          [code |-> 200, detail |-> <<>>, success |-> TRUE, transaction_id |-> 0,
           result |-> [deleted |-> RowsOf(req[p].room_id) # {}]]]
    /\ UNCHANGED <<ledger, req, loc, platform>>

\* delete_wallet: delete from agent_wallets where room_id = ...; True if a
\* row was deleted
delete_wallet(p) ==
    /\ pc[p] = "w_delete"
    /\ \/ /\ wallets' = wallets \ RowsOf(req[p].room_id)
          /\ pc' = [pc EXCEPT ![p] = "done"]
          /\ resp' = [resp EXCEPT ![p] =
                [code |-> 200, detail |-> <<>>, success |-> TRUE, transaction_id |-> 0,
                 result |-> [deleted |-> RowsOf(req[p].room_id) # {}]]]
       \/ /\ Raise(p, DbError)
          /\ UNCHANGED wallets
    /\ UNCHANGED <<ledger, cdpAccounts, cdpSmart, req, loc, platform>>

AdminNext ==
    \E p \in Procs :
        \/ Provision(p)
        \/ Dispatch(p)
        \/ transaction_history_endpoint(p)
        \/ StartDeleteWallet(p)
        \/ delete_wallet(p)

\* r1 has the wallet an earlier provision stored, r2 has none
InitAdmin == StoresAre("stored", "none") /\ NothingRequested

AdminSpec == InitAdmin /\ [][AdminNext]_vars

\* ==================================================================
\* Properties
\* ==================================================================
IsDispatch(p) == req[p].kind = "dispatch"

IsProvision(p) == req[p].kind = "provision"

Done(p) == pc[p] = "done"

\* the ids of the ledger rows request p created
RecordsBy(p) == {i \in 1 .. Len(ledger) : ledger[i].by = p}

HandlerPcs ==
    {"h_start", "h_owner", "h_smart", "t_send", "t_wait",
     "s_approve", "s_approve_wait", "s_swap", "s_wait"}

\* the handler of p is running or has run
HandlerStarted(p) ==
    pc[p] \in HandlerPcs \/ loc[p].hresult # None \/ loc[p].herr # None

\* p made the Wallet Service call name and it raised
CallFailed(p, name) ==
    \E k \in 1 .. Len(loc[p].calls) : loc[p].calls[k].call = name /\ ~loc[p].calls[k].ok

Terminal == {"success", "failed"}

RegistryNames == {"balance", "transfer", "swap"}

\* ---------------------------------------------------------------- C1
\* C1: a dispatch never has more than one Transaction Record; once its
\* handler has started, or any Wallet Service call has been made for it, it
\* has exactly one, the one it created, and that record is pending all the
\* time the handler runs (it was created pending before the handler began).
C1_PendingRecordBeforeHandler ==
    \A p \in Procs : IsDispatch(p) =>
        /\ Cardinality(RecordsBy(p)) <= 1
        /\ (HandlerStarted(p) \/ loc[p].calls # <<>>) => RecordsBy(p) = {loc[p].txid}
        /\ pc[p] \in HandlerPcs => ledger[loc[p].txid].status = "pending"

\* a transfer that has submitted its operation, its record still pending
C1_Witness ==
    \E p \in Procs :
        /\ IsDispatch(p) /\ pc[p] = "t_wait"
        /\ Len(loc[p].calls) = 3
        /\ RecordsBy(p) = {loc[p].txid}
        /\ ledger[loc[p].txid].status = "pending"

C3_LedgerStatusIsHandlerOutcome ==
    \A p \in Procs : IsDispatch(p) =>
        \A i \in RecordsBy(p) :
            /\ ledger[i].status = "success" => loc[p].hresult # None
            /\ ledger[i].status = "failed" => loc[p].herr # None

\* ---------------------------------------------------------------- C4
\* C4: after a dispatch that created a record, the caller got a success
\* response iff the record is success, the record has a result iff it is
\* success, and it has an error iff it is failed.
C4_StatusMatchesResponse ==
    \A p \in Procs : (IsDispatch(p) /\ Done(p) /\ RecordsBy(p) # {}) =>
        LET r == ledger[loc[p].txid] IN
        /\ resp[p].success <=> r.status = "success"
        /\ r.result # None <=> r.status = "success"
        /\ r.error # None <=> r.status = "failed"

\* one dispatch answered with the result its record holds, another answered
\* with the error its record holds
C4_Witness ==
    \E p, q \in Procs :
        /\ IsDispatch(p) /\ Done(p) /\ resp[p].success
        /\ RecordsBy(p) = {loc[p].txid}
        /\ ledger[loc[p].txid].status = "success"
        /\ ledger[loc[p].txid].result = resp[p].result
        /\ resp[p].result # None
        /\ IsDispatch(q) /\ Done(q) /\ ~resp[q].success
        /\ RecordsBy(q) = {loc[q].txid}
        /\ ledger[loc[q].txid].status = "failed"
        /\ ledger[loc[q].txid].error = ErrorText(resp[q].detail)

\* ---------------------------------------------------------------- C5
\* C5: a dispatch of an action name outside {balance, transfer, swap} never
\* gets past the check, creates no record, makes no Wallet Service call, and
\* ends with 400 "Invalid action", with or without a wallet for the room.
C5_InvalidActionRejected ==
    \A p \in Procs : (IsDispatch(p) /\ req[p].action \notin RegistryNames) =>
        /\ pc[p] \in {"d_check", "done"}
        /\ RecordsBy(p) = {}
        /\ loc[p].calls = <<>>
        /\ Done(p) => (resp[p].code = 400 /\ resp[p].detail[1] = "Invalid action: ")

\* two invalid dispatches answered 400: one on a room without a wallet, one
\* on a room with a wallet
C5_Witness ==
    \E p, q \in Procs :
        /\ IsDispatch(p) /\ req[p].action = "stake" /\ Done(p)
        /\ RowsOf(req[p].room_id) = {} /\ resp[p].code = 400
        /\ IsDispatch(q) /\ req[q].action = "stake" /\ Done(q)
        /\ RowsOf(req[q].room_id) # {} /\ resp[q].code = 400
        /\ ledger = <<>>

\* ---------------------------------------------------------------- C6
\* the step of a valid dispatch that finds no wallet stored for its room
C6_Step ==
    \A p \in Procs :
        (/\ pc[p] = "d_check" /\ IsDispatch(p)
         /\ req[p].action \in RegistryNames
         /\ RowsOf(req[p].room_id) = {}
         /\ pc'[p] # "d_check")
        => /\ pc'[p] = "done"
           /\ resp'[p].code = 404
           /\ ledger' = ledger
           /\ loc'[p].calls = <<>>

\* C6: a valid dispatch that finds no Wallet Identity stored for its room
\* ends at once with 404, writing no record and calling the Wallet Service
\* not at all; a dispatch ended before its handler started has no record and
\* made no call.
C6_NoWalletNotFound ==
    /\ [](\A p \in Procs : (IsDispatch(p) /\ Done(p) /\ ~HandlerStarted(p) /\ resp[p].code = 404)
              => (RecordsBy(p) = {} /\ loc[p].calls = <<>>))
    /\ [][C6_Step]_vars

\* a valid dispatch on a room without a wallet, answered 404
C6_Witness ==
    \E p \in Procs :
        /\ IsDispatch(p) /\ req[p].action = "transfer" /\ Done(p)
        /\ RowsOf(req[p].room_id) = {}
        /\ resp[p].code = 404
        /\ RecordsBy(p) = {} /\ loc[p].calls = <<>>

\* ---------------------------------------------------------------- C7
\* C7 as stated: a dispatch that ended with a 400 has written no record.
C7_ValidationErrorNoRecord ==
    \A p \in Procs : (IsDispatch(p) /\ Done(p) /\ resp[p].code = 400) => RecordsBy(p) = {}

\* C7 amended: a dispatch that ended with a 400 has written no record when
\* the action name was bad; when the 400 came from the handler (a missing
\* required parameter, an unknown token) it has written exactly one record,
\* finalized failed with that message.
C7_OnlyBadActionLeavesNoRecord ==
    \A p \in Procs : (IsDispatch(p) /\ Done(p) /\ resp[p].code = 400) =>
        IF req[p].action \notin RegistryNames
        THEN RecordsBy(p) = {}
        ELSE /\ RecordsBy(p) = {loc[p].txid}
             /\ ledger[loc[p].txid].status = "failed"
             /\ ledger[loc[p].txid].error = ErrorText(resp[p].detail)

\* a transfer without to_address: answered 400, its record failed
C7_Witness ==
    \E p \in Procs :
        /\ IsDispatch(p) /\ req[p].action = "transfer" /\ Done(p)
        /\ req[p].params.to_address = Missing
        /\ resp[p].code = 400
        /\ resp[p].detail = <<"Missing required parameter: to_address">>
        /\ RecordsBy(p) = {loc[p].txid}
        /\ ledger[loc[p].txid].status = "failed"

\* ---------------------------------------------------------------- C8
OneRowPerRoom == \A r \in Rooms : Cardinality(RowsOf(r)) <= 1

\* the step of a provision that finds a wallet stored for its room, and the
\* step of a provision that stores its row
C8_Step ==
    \A p \in Procs :
        /\ (pc[p] = "p_check" /\ RowsOf(req[p].room_id) # {} /\ pc'[p] # "p_check")
           => /\ pc'[p] = "done"
              /\ resp'[p].code = 409
              /\ loc'[p].calls = <<>>
              /\ wallets' = wallets
              /\ cdpAccounts' = cdpAccounts /\ cdpSmart' = cdpSmart
        /\ (pc[p] = "p_insert" /\ pc'[p] = "done" /\ resp'[p].success)
           => /\ RowsOf(req[p].room_id) = {}
              /\ Cardinality(wallets') = Cardinality(wallets) + 1
              /\ \E w \in wallets' : w.room_id = req[p].room_id /\ w.by = p

\* C8: no room ever has two stored Wallet Identities; a provision that
\* stores its row stores the only row of the room; a provision started when
\* a row is stored ends with 409 without a Wallet Service call and without
\* changing any row.
C8_SecondProvisionConflicts ==
    /\ [](OneRowPerRoom
          /\ \A p \in Procs : (IsProvision(p) /\ Done(p) /\ resp[p].code = 409) =>
                (loc[p].calls = <<>> /\ \A w \in wallets : w.by # p))
    /\ [][C8_Step]_vars

\* two provisions of one room: the first stored the row, the second got 409
C8_Witness ==
    \E p, q \in Procs :
        /\ IsProvision(p) /\ IsProvision(q) /\ req[p].room_id = req[q].room_id
        /\ Done(p) /\ resp[p].code = 201
        /\ Done(q) /\ resp[q].code = 409 /\ loc[q].calls = <<>>
        /\ Cardinality(RowsOf(req[p].room_id)) = 1
        /\ \A w \in RowsOf(req[p].room_id) : w.by = p

\* ---------------------------------------------------------------- C9
\* p's insert was rejected by the uniqueness of room_id
LostInsertRace(p) ==
    /\ IsProvision(p) /\ Done(p) /\ loc[p].smart # None
    /\ ~resp[p].success
    /\ resp[p].detail[2] = "duplicate key value violates unique constraint"

\* C9: of two concurrent provisions of one room exactly one row is stored,
\* the winner's, and the one whose insert the constraint rejected receives
\* Conflict (409).
C9_LoserGetsConflict ==
    /\ OneRowPerRoom
    /\ \A p \in Procs : LostInsertRace(p) =>
          /\ \A w \in wallets : w.by # p
          /\ resp[p].code = 409

\* --------------------------------------------------------------- C10
\* C10: a provision whose owner-account or smart-account request raised has
\* ended with a 500, has stored no row, and has made no Wallet Service call
\* other than the two get-or-create requests (no deletion); the owner account
\* made before a failed smart-account request is still there.
C10_RemoteFailureNoRowNoRollback ==
    \A p \in Procs :
        (/\ IsProvision(p)
         /\ \/ CallFailed(p, "get_or_create_account")
            \/ CallFailed(p, "get_or_create_smart_account"))
        => /\ Done(p) /\ ~resp[p].success /\ resp[p].code = 500
           /\ \A w \in wallets : w.by # p
           /\ \A k \in 1 .. Len(loc[p].calls) :
                 loc[p].calls[k].call \in {"get_or_create_account", "get_or_create_smart_account"}
           /\ CallFailed(p, "get_or_create_smart_account")
                 => AccountsNamed(cdpAccounts, owner_account_name_of(req[p].room_id)) # {}

\* a provision whose smart-account request raised after the owner account was
\* made: no row for the room, the owner account kept
C10_Witness ==
    \E p \in Procs :
        /\ IsProvision(p) /\ Done(p)
        /\ CallFailed(p, "get_or_create_smart_account")
        /\ resp[p].code = 500
        /\ RowsOf(req[p].room_id) = {}
        /\ AccountsNamed(cdpAccounts, req[p].room_id) # {}
        /\ AccountsNamed(cdpSmart, req[p].room_id) = {}

\* --------------------------------------------------------------- C11
\* p's insert raised after both of its accounts had been made
FailedAtPersistence(p) ==
    /\ IsProvision(p) /\ Done(p) /\ ~resp[p].success
    /\ loc[p].owner # None /\ loc[p].smart # None
    /\ resp[p].detail[1] = "Failed to save wallet to database: "

\* C11: the Wallet Service never holds two owner accounts or two smart
\* accounts under one name; every provision names its accounts by
\* owner_account_name = room_id; and when a provision of a room failed at the
\* insert after making both accounts, another provision of that room that
\* succeeds has stored exactly the addresses the failed one had obtained, and
\* one answered 409 found a row stored for the room.
C11_RetryReusesRemoteAccounts ==
    /\ \A r \in Rooms :
          /\ Cardinality(AccountsNamed(cdpAccounts, owner_account_name_of(r))) <= 1
          /\ Cardinality(AccountsNamed(cdpSmart, owner_account_name_of(r))) <= 1
    /\ \A p \in Procs : IsProvision(p) =>
          /\ loc[p].owner # None => loc[p].owner.name = req[p].room_id
          /\ loc[p].smart # None => loc[p].smart.name = req[p].room_id
          /\ \A w \in wallets : w.by = p => w.owner_account_name = w.room_id
    /\ \A p, q \in Procs :
          (/\ FailedAtPersistence(p)
           /\ IsProvision(q) /\ q # p /\ req[q].room_id = req[p].room_id /\ Done(q))
          => /\ resp[q].success =>
                   \E w \in wallets :
                      /\ w.by = q /\ w.room_id = req[p].room_id
                      /\ w.address = loc[p].owner.address
                      /\ w.smart_account_address = loc[p].smart.address
             /\ resp[q].code = 409 => RowsOf(req[q].room_id) # {}

\* a provision failed at the insert for a datastore error, and the retry of
\* the same room stored the addresses of the accounts the first had made
C11_Witness ==
    \E p, q \in Procs :
        /\ FailedAtPersistence(p) /\ resp[p].detail[2] = "datastore error"
        /\ IsProvision(q) /\ q # p /\ req[q].room_id = req[p].room_id
        /\ Done(q) /\ resp[q].code = 201
        /\ resp[q].result.owner_address = loc[p].owner.address
        /\ resp[q].result.smart_account_address = loc[p].smart.address
        /\ \E w \in wallets : w.by = q /\ w.address = OwnerAddress(req[p].room_id, 1)
        /\ Cardinality(AccountsNamed(cdpAccounts, req[p].room_id)) = 1
        /\ Cardinality(AccountsNamed(cdpSmart, req[p].room_id)) = 1

\* --------------------------------------------------------------- C12
\* the last Wallet Service call of p was the wait for the confirmation of the
\* operation it had submitted (the transfer, or the swap itself), and it raised
ConfirmationWaitFailed(p) ==
    /\ IsDispatch(p) /\ Len(loc[p].calls) >= 2
    /\ LET n == Len(loc[p].calls) IN
          /\ loc[p].calls[n] = [call |-> "wait_for_user_operation", ok |-> FALSE]
          /\ loc[p].calls[n - 1] =
                [call |-> IF req[p].action = "transfer" THEN "send_user_operation" ELSE "swap",
                 ok |-> TRUE]

\* C12: when the submission of a transfer or swap was accepted and the wait
\* for its confirmation raised, the handler has returned (not raised) a
\* result with the operation hash of the submission and no transaction hash
\* (status: what the submission reported for a transfer, pending for a swap);
\* the dispatcher then writes the record success with that result and
\* answers success, unless that datastore write itself raises.
C12_PartialResultOnWaitFailure ==
    \A p \in Procs : ConfirmationWaitFailed(p) =>
        /\ loc[p].herr = None
        /\ loc[p].hresult # None
        /\ loc[p].hresult.user_op_hash = loc[p].op.user_op_hash
        /\ loc[p].hresult.user_op_hash # None
        /\ loc[p].hresult.transaction_hash = None
        /\ loc[p].hresult.block_explorer = None
        /\ loc[p].hresult.status = (IF req[p].action = "transfer" THEN loc[p].op.status ELSE "pending")
        /\ pc[p] \in {"d_success", "d_exc", "done"}
        /\ (pc[p] = "d_success" \/ loc[p].exc = None) =>
              ledger[loc[p].txid].status = (IF Done(p) THEN "success" ELSE "pending")
        /\ (Done(p) /\ loc[p].exc = None) =>
              /\ resp[p].success /\ resp[p].code = 200
              /\ resp[p].result = loc[p].hresult
              /\ ledger[loc[p].txid].result = loc[p].hresult

\* a transfer and a swap, each submitted and its wait failed, both answered
\* success with the partial result, both records success
C12_Witness ==
    \E p, q \in Procs :
        /\ ConfirmationWaitFailed(p) /\ req[p].action = "transfer" /\ Done(p)
        /\ resp[p].success /\ resp[p].result.transaction_hash = None
        /\ resp[p].result.user_op_hash = UserOp(p, "transfer").user_op_hash
        /\ ledger[loc[p].txid].status = "success"
        /\ ConfirmationWaitFailed(q) /\ req[q].action = "swap" /\ Done(q)
        /\ resp[q].success /\ resp[q].result.transaction_hash = None
        /\ resp[q].result.user_op_hash = UserOp(q, "swap").user_op_hash
        /\ ledger[loc[q].txid].status = "success"

\* --------------------------------------------------------------- C13
\* the native-asset sentinel: the symbol ETH in either case, or the zero address
IsNativeSentinel(token) ==
    token \in {"ETH", "eth", "0x0000000000000000000000000000000000000000"}

\* the operations of a kind that p has submitted
OpsOfKind(p, kind) == {k \in 1 .. Len(loc[p].ops) : loc[p].ops[k].kind = kind}

\* p has made (or tried) the Wallet Service call name
CallMade(p, name) == \E k \in 1 .. Len(loc[p].calls) : loc[p].calls[k].call = name

\* the approval of p was tried and did not go through: its submission raised,
\* or the wait for its confirmation raised
ApprovalFailed(p) ==
    /\ Len(loc[p].calls) >= 3
    /\ \/ loc[p].calls[3] = [call |-> "send_user_operation", ok |-> FALSE]
       \/ /\ Len(loc[p].calls) >= 4
          /\ loc[p].calls[4] = [call |-> "wait_for_user_operation", ok |-> FALSE]

\* C13: a swap selling the native asset submits no approval; a swap selling
\* anything else never submits more than one approval, and its swap is
\* requested only as the fifth Wallet Service call, after the approval was
\* submitted (third call) and the wait for it returned (fourth call); when the
\* approval's submission or the wait for it raised, no swap is ever requested
\* and the handler has raised "Failed to approve Permit2".
C13_ApprovalBeforeSwap ==
    \A p \in Procs : (IsDispatch(p) /\ req[p].action = "swap") =>
        IF IsNativeSentinel(req[p].params.from_token)
        THEN /\ OpsOfKind(p, "approve") = {}
             /\ ~CallMade(p, "send_user_operation")
             /\ CallMade(p, "swap") => loc[p].calls[3].call = "swap"
        ELSE /\ Cardinality(OpsOfKind(p, "approve")) <= 1
             /\ CallMade(p, "swap") =>
                   /\ loc[p].calls[3] = [call |-> "send_user_operation", ok |-> TRUE]
                   /\ loc[p].calls[4] = [call |-> "wait_for_user_operation", ok |-> TRUE]
                   /\ loc[p].calls[5].call = "swap"
                   /\ OpsOfKind(p, "approve") = {1}
                   /\ OpsOfKind(p, "swap") \subseteq {2}
             /\ ApprovalFailed(p) =>
                   /\ ~CallMade(p, "swap")
                   /\ OpsOfKind(p, "swap") = {}
                   /\ loc[p].hresult = None
                   /\ loc[p].herr # None
                   /\ loc[p].herr.detail[1] = "Failed to approve Permit2: "

\* a swap of USDC that has submitted one approval and then its swap, and a
\* swap of eth that has submitted its swap and no approval
C13_Witness ==
    \E p, q \in Procs :
        /\ IsDispatch(p) /\ req[p].action = "swap" /\ req[p].params.from_token = "USDC"
        /\ Len(loc[p].ops) = 2
        /\ loc[p].ops[1].kind = "approve" /\ loc[p].ops[2].kind = "swap"
        /\ IsDispatch(q) /\ req[q].action = "swap" /\ req[q].params.from_token = "eth"
        /\ Len(loc[q].ops) = 1 /\ loc[q].ops[1].kind = "swap"
        /\ Done(p) /\ Done(q)

\* --------------------------------------------------------------- C14
\* C14: a balance dispatch makes no Wallet Service call; when its handler has
\* returned, result.address is the smart account address stored for the room,
\* which for a row a provision stored is not the owner address; only for a
\* row without a smart account address is it the row's address field.
C14_BalanceReturnsCustodialAddress ==
    \A p \in Procs : (IsDispatch(p) /\ req[p].action = "balance") =>
        /\ loc[p].calls = <<>> /\ loc[p].ops = <<>>
        /\ loc[p].hresult # None =>
              \E w \in RowsOf(req[p].room_id) :
                 /\ w.smart_account_address # None =>
                       /\ loc[p].hresult.address = w.smart_account_address
                       /\ loc[p].hresult.address # w.address
                 /\ w.smart_account_address = None =>
                       loc[p].hresult.address = w.address
                 /\ loc[p].hresult.address.kind = "eoa" => w = LegacyRow(req[p].room_id)
                 /\ loc[p].hresult.room_id = req[p].room_id
        /\ (Done(p) /\ resp[p].success) => resp[p].result = loc[p].hresult

\* a provision stored owner address X and smart account address Y, and a
\* balance dispatch of the room was answered with Y; this with a room of the
\* old schema in the store
C14_Witness ==
    \E p, q \in Procs :
        /\ IsProvision(p) /\ Done(p) /\ resp[p].code = 201
        /\ IsDispatch(q) /\ req[q].action = "balance" /\ req[q].room_id = req[p].room_id
        /\ Done(q) /\ resp[q].success /\ loc[q].calls = <<>>
        /\ resp[q].result.address = resp[p].result.smart_account_address
        /\ resp[q].result.address # resp[p].result.owner_address

\* a balance dispatch of a room stored under the old schema, answered with
\* the row's address field
C14_LegacyReached ==
    \E q \in Procs :
        /\ IsDispatch(q) /\ req[q].action = "balance" /\ Done(q) /\ resp[q].success
        /\ resp[q].result.address = OwnerAddress(LegacyName(req[q].room_id), 1)

\* ==================================================================
\* Properties of the platform API
\* ==================================================================
IsSaga(p) == req[p].kind = "create_room"

\* p made the call name and it failed
Failed(p, name) ==
    \E k \in 1 .. Len(loc[p].calls) : loc[p].calls[k] = [call |-> name, ok |-> FALSE]

\* p made the call name and it succeeded
Succeeded(p, name) ==
    \E k \in 1 .. Len(loc[p].calls) : loc[p].calls[k] = [call |-> name, ok |-> TRUE]

\* what exists for the invocation p of the saga
WalletOf(p) == RowsOf(Uuid(p))

CdpAccountsOf(p) == AccountsNamed(cdpAccounts, Uuid(p)) \cup AccountsNamed(cdpSmart, Uuid(p))

RemoteAgentOf(p) == elizaAgents \cap {ElizaAgentId(p)}

RemoteRoomOf(p) == {r \in elizaRooms : r.id = ElizaRoomId(p)}

RoomRowsOf(p) == {r \in platformRooms : r.by = p \/ r.id = Uuid(p)}

AgentRowsOf(p) == {a \in platformAgents : a.by = p}

\* --------------------------------------------------------------- C15
\* C15: a saga whose text generation failed has ended with the 500 of step
\* 1 having made no other call, and nothing exists for it: no Wallet Identity
\* and no Wallet Service account for its room_id, no remote agent, no remote
\* room, no Room row, no Agent row.
C15_GenerationFailureNoSideEffects ==
    \A p \in Procs : (IsSaga(p) /\ Failed(p, "generate_strategy_prompt")) =>
        /\ Done(p) /\ ~resp[p].success /\ resp[p].code = 500
        /\ resp[p].error[1] = "Failed to generate AI strategy: "
        /\ Len(loc[p].calls) = 1
        /\ WalletOf(p) = {} /\ CdpAccountsOf(p) = {}
        /\ RemoteAgentOf(p) = {} /\ RemoteRoomOf(p) = {}
        /\ RoomRowsOf(p) = {} /\ AgentRowsOf(p) = {}

\* a saga stopped at step 1 with nothing made for it, next to a saga that
\* went through and has its wallet, remote agent, remote room and rows
C15_Witness ==
    \E p, q \in Procs :
        /\ IsSaga(p) /\ Failed(p, "generate_strategy_prompt") /\ Done(p)
        /\ resp[p].code = 500
        /\ WalletOf(p) = {} /\ RemoteAgentOf(p) = {} /\ RoomRowsOf(p) = {}
        /\ IsSaga(q) /\ Done(q) /\ resp[q].success
        /\ WalletOf(q) # {} /\ RemoteAgentOf(q) # {} /\ RoomRowsOf(q) # {}

\* --------------------------------------------------------------- C16
\* the calls of the fatal steps, with the message each step's failure is
\* answered with
FatalCalls ==
    {"generate_strategy_prompt", "POST /wallets", "POST /api/agents",
     "select platform_agents", "POST /api/rooms", "insert platform_rooms"}

StepError(call) ==
    CASE call = "generate_strategy_prompt" -> "Failed to generate AI strategy: "
      [] call = "POST /wallets" -> "Failed to create wallet: "
      [] call = "POST /api/agents" -> "Failed to create strategy agent: "
      [] call = "select platform_agents" -> "Failed to create ElizaOS room: "
      [] call = "POST /api/rooms" -> "Failed to create ElizaOS room: "
      [] call = "insert platform_rooms" -> "Failed to store room in database: "

\* the place of a call in the saga
StepOf(call) ==
    CASE call = "generate_strategy_prompt" -> 1
      [] call = "POST /wallets" -> 2
      [] call = "POST /api/agents" -> 3
      [] call = "POST /api/agents/start" -> 4
      [] call = "select platform_agents" -> 5
      [] call = "POST /api/rooms" -> 5
      [] call = "insert platform_rooms" -> 6
      [] call = "insert platform_agents" -> 7

\* C16: in a saga, a failed call of a fatal step (1, 2, 3, 5, 6) is the last
\* call the saga makes: the saga has ended with a 500 carrying that step's
\* message, and nothing of a later step exists (no remote agent after a
\* failed step 2, no remote room after a failed step 3, no Room row and no
\* Agent row after any of them); a saga that ended with an error ended so.
C16_FirstFatalFailureStops ==
    \A p \in Procs : IsSaga(p) =>
        /\ \A k \in 1 .. Len(loc[p].calls) :
              (loc[p].calls[k].call \in FatalCalls /\ ~loc[p].calls[k].ok) =>
                 /\ k = Len(loc[p].calls)
                 /\ Done(p) /\ ~resp[p].success /\ resp[p].code = 500
                 /\ resp[p].error[1] = StepError(loc[p].calls[k].call)
                 /\ RoomRowsOf(p) = {} /\ AgentRowsOf(p) = {}
                 /\ StepOf(loc[p].calls[k].call) <= 3 => RemoteRoomOf(p) = {}
                 /\ StepOf(loc[p].calls[k].call) <= 2 => RemoteAgentOf(p) = {}
                 /\ StepOf(loc[p].calls[k].call) <= 1 => WalletOf(p) = {}
        /\ \A j, k \in 1 .. Len(loc[p].calls) :
              j < k => StepOf(loc[p].calls[j].call) <= StepOf(loc[p].calls[k].call)
        /\ (Done(p) /\ ~resp[p].success) =>
              LET last == loc[p].calls[Len(loc[p].calls)] IN
              last.call \in FatalCalls /\ ~last.ok

\* a saga whose room creation failed after steps 1 to 4 went through:
\* answered with the message of step 5, no row written
C16_Witness ==
    \E p \in Procs :
        /\ IsSaga(p) /\ Done(p) /\ Failed(p, "POST /api/rooms")
        /\ Succeeded(p, "POST /wallets") /\ Succeeded(p, "POST /api/agents")
        /\ resp[p].code = 500 /\ resp[p].error[1] = "Failed to create ElizaOS room: "
        /\ loc[p].calls[Len(loc[p].calls)].call = "POST /api/rooms"
        /\ RoomRowsOf(p) = {} /\ AgentRowsOf(p) = {}

\* --------------------------------------------------------------- C17
\* C17: a saga whose start of the remote agent failed has not ended there:
\* it is at step 5 or beyond, and when it has ended it ended as step 5 or 6
\* decided, or with the Room view; a saga whose insert of the Agent row
\* failed has ended with the successful Room view (201), its Room row is
\* stored, and no Agent row of it is.
C17_BestEffortStepsNotFatal ==
    \A p \in Procs : IsSaga(p) =>
        /\ Failed(p, "POST /api/agents/start") =>
              /\ pc[p] \in {"s_lookup", "s_room", "s_persist_room", "s_persist_agent", "done"}
              /\ Done(p) =>
                    /\ loc[p].calls[Len(loc[p].calls)].call # "POST /api/agents/start"
                    /\ resp[p].success <=> Succeeded(p, "insert platform_rooms")
        /\ Failed(p, "insert platform_agents") =>
              /\ Done(p) /\ resp[p].success /\ resp[p].code = 201
              /\ resp[p].result \in platformRooms
              /\ resp[p].result.id = Uuid(p)
              /\ resp[p].result.strategy_agent_id = ElizaAgentId(p)
              /\ AgentRowsOf(p) = {}

\* a saga whose agent did not start and whose Agent row was not stored:
\* it made the remote room, stored the Room row and answered with it
C17_Witness ==
    \E p \in Procs :
        /\ IsSaga(p) /\ Done(p)
        /\ Failed(p, "POST /api/agents/start") /\ Failed(p, "insert platform_agents")
        /\ Succeeded(p, "POST /api/rooms") /\ Succeeded(p, "insert platform_rooms")
        /\ resp[p].success /\ resp[p].result \in platformRooms
        /\ RemoteRoomOf(p) # {} /\ AgentRowsOf(p) = {}
        /\ ElizaAgentId(p) \notin elizaStarted

\* --------------------------------------------------------------- C18
\* the calls that take something back
DeleteCalls == {"DELETE /api/agents", "POST /api/agents/stop", "delete platform_agents"}

\* the saga p has made no call that takes anything back
NoCompensation(p) ==
    \A k \in 1 .. Len(loc[p].calls) : loc[p].calls[k].call \notin DeleteCalls

\* the Wallet Identity of p's room is stored, with its two accounts at the
\* Wallet Service
WalletRemains(p) ==
    /\ WalletOf(p) # {}
    /\ AccountsNamed(cdpAccounts, Uuid(p)) # {}
    /\ AccountsNamed(cdpSmart, Uuid(p)) # {}

\* C18: a saga whose insert of the Room row failed has ended with an error
\* and taken nothing back: the Wallet Identity of its room, its remote agent
\* and its remote room exist, it made no deleting call, and there is no Room
\* row and no Agent row of it.  Likewise after a failed step 3 the Wallet
\* Identity exists, and after a failed step 5 the Wallet Identity and the
\* remote agent exist.
C18_NoCompensation ==
    \A p \in Procs : IsSaga(p) =>
        /\ NoCompensation(p)
        /\ Failed(p, "insert platform_rooms") =>
              /\ Done(p) /\ ~resp[p].success
              /\ WalletRemains(p)
              /\ RemoteAgentOf(p) # {} /\ RemoteRoomOf(p) # {}
              /\ RoomRowsOf(p) = {} /\ AgentRowsOf(p) = {}
        /\ Failed(p, "POST /api/agents") =>
              /\ Done(p) /\ ~resp[p].success
              /\ WalletRemains(p)
              /\ RoomRowsOf(p) = {} /\ AgentRowsOf(p) = {}
        /\ (Failed(p, "POST /api/rooms") \/ Failed(p, "select platform_agents")) =>
              /\ Done(p) /\ ~resp[p].success
              /\ WalletRemains(p)
              /\ RemoteAgentOf(p) # {}
              /\ RoomRowsOf(p) = {} /\ AgentRowsOf(p) = {}

\* a saga ended by its failed insert of the Room row, while another request
\* has deleted the stored agent: the wallet, the remote agent and the remote
\* room of the saga are all still there, and no row of it
C18_Witness ==
    \E p, q \in Procs :
        /\ IsSaga(p) /\ Done(p) /\ Failed(p, "insert platform_rooms")
        /\ resp[p].error[1] = "Failed to store room in database: "
        /\ WalletRemains(p) /\ RemoteAgentOf(p) # {} /\ RemoteRoomOf(p) # {}
        /\ RoomRowsOf(p) = {} /\ AgentRowsOf(p) = {}
        /\ req[q].kind = "delete_agent" /\ Done(q) /\ resp[q].success

\* --------------------------------------------------------------- C19
\* the place of the first call name in the calls of p (0: not made)
PlaceOf(p, name) ==
    IF \E k \in 1 .. Len(loc[p].calls) : loc[p].calls[k].call = name
    THEN CHOOSE k \in 1 .. Len(loc[p].calls) :
            /\ loc[p].calls[k].call = name
            /\ \A j \in 1 .. k - 1 : loc[p].calls[j].call # name
    ELSE 0

\* C19: every platform_agents row written in the run was inserted by a
\* request (POST /agents or POST /rooms) whose create-agent call to the Agent
\* Runtime had succeeded before the insert, and its eliza_agent_id is the id
\* that call returned.
C19_AgentRowAfterRemoteCreation ==
    \A a \in platformAgents : a.by # 0 =>
        /\ req[a.by].kind \in {"create_agent", "create_room"}
        /\ Succeeded(a.by, "POST /api/agents")
        /\ Succeeded(a.by, "insert platform_agents")
        /\ PlaceOf(a.by, "POST /api/agents") < PlaceOf(a.by, "insert platform_agents")
        /\ a.eliza_agent_id = ElizaAgentId(a.by)
        /\ a.eliza_agent_id # Missing

\* an Agent row stored by POST /agents and one stored by the saga, each
\* with the id of the remote agent made for it
C19_Witness ==
    \E a, b \in platformAgents :
        /\ a.by # 0 /\ req[a.by].kind = "create_agent"
        /\ a.eliza_agent_id = ElizaAgentId(a.by) /\ a.eliza_agent_id \in elizaAgents
        /\ b.by # 0 /\ req[b.by].kind = "create_room"
        /\ b.eliza_agent_id = ElizaAgentId(b.by) /\ b.eliza_agent_id \in elizaAgents

\* --------------------------------------------------------------- C20
\* the calls with an effect at a remote system, and the datastore writes
RemoteEffectCalls ==
    {"POST /wallets", "POST /api/agents", "POST /api/agents/start", "POST /api/rooms",
     "POST /api/agents/stop", "DELETE /api/agents"}

DatastoreWrites == {"insert platform_rooms", "insert platform_agents", "delete platform_agents"}

\* no request is under way
Quiescent == \A p \in Procs : pc[p] \in {"idle", "done"}

\* C20: in POST /agents, DELETE /agents and the room saga no call with a
\* remote effect follows a datastore write that was applied, and once the
\* requests have ended no local record is left whose remote resource is
\* absent: every platform_agents row names an agent the Agent Runtime holds
\* and every Wallet Identity names accounts the Wallet Service holds.
C20_NoLocalRecordWithoutRemote ==
    /\ \A p \in Procs : \A j, k \in 1 .. Len(loc[p].calls) :
          (j < k /\ loc[p].calls[j].call \in DatastoreWrites /\ loc[p].calls[j].ok)
             => loc[p].calls[k].call \notin RemoteEffectCalls
    /\ Quiescent =>
          /\ \A a \in platformAgents : a.eliza_agent_id \in elizaAgents
          /\ \A w \in wallets :
                /\ AccountsNamed(cdpAccounts, w.owner_account_name) # {}
                /\ AccountsNamed(cdpSmart, w.owner_account_name) # {}

\* --------------------------------------------------------------- C21
\* the Wallet Identity stored for a room_id with these two addresses
WalletIdentityFor(room_id, owner_address, smart_account_address) ==
    {w \in wallets : /\ w.room_id = room_id
                     /\ w.address = owner_address
                     /\ w.smart_account_address = smart_account_address}

\* C21: every platform_rooms row was inserted by a saga invocation whose
\* wallet request, create-agent request and create-room request had all
\* succeeded before the insert; its id is that invocation's room_id, for
\* which a Wallet Identity is stored whose owner and smart account addresses
\* are the row's wallet_address and smart_account_address; its
\* strategy_agent_id and eliza_room_id are the ids the Agent Runtime returned.
C21_RoomRowAfterRemoteSteps ==
    \A r \in platformRooms :
        LET p == r.by
        IN /\ p \in Procs /\ IsSaga(p)
           /\ Succeeded(p, "POST /wallets")
           /\ Succeeded(p, "POST /api/agents")
           /\ Succeeded(p, "POST /api/rooms")
           /\ Succeeded(p, "insert platform_rooms")
           /\ PlaceOf(p, "POST /wallets") < PlaceOf(p, "POST /api/agents")
           /\ PlaceOf(p, "POST /api/agents") < PlaceOf(p, "POST /api/rooms")
           /\ PlaceOf(p, "POST /api/rooms") < PlaceOf(p, "insert platform_rooms")
           /\ r.id = req[p].room_id
           /\ WalletIdentityFor(r.id, r.wallet_address, r.smart_account_address) # {}
           /\ r.wallet_address # None /\ r.smart_account_address # None
           /\ r.strategy_agent_id = ElizaAgentId(p)
           /\ r.eliza_room_id = ElizaRoomId(p)
           /\ \E room \in elizaRooms :
                 room.id = r.eliza_room_id /\ r.strategy_agent_id \in room.agentIds

\* two sagas have each stored their Room row, one of them after a failed start
C21_Witness ==
    /\ \A p \in Procs : IsSaga(p) /\ RoomRowsOf(p) # {}
    /\ \E p \in Procs : Failed(p, "POST /api/agents/start")
    /\ \A r \in platformRooms :
          WalletIdentityFor(r.id, r.wallet_address, r.smart_account_address) # {}

\* --------------------------------------------------------------- C22
IsHistory(p) == req[p].kind = "history"

\* the ids of the stored records of the query's room that match its filter
MatchingIds(p) ==
    {i \in 1 .. Len(ledger) : Matches(ledger[i], req[p].room_id, req[p].status)}

\* the number of records the claim says are returned
PageLength(p, N) ==
    LET capped == IF req[p].limit > 100 THEN 100 ELSE req[p].limit
        left == IF N > req[p].offset THEN N - req[p].offset ELSE 0
    IN IF capped < left THEN capped ELSE left

\* The page of an answered query is the records at positions offset+1 ..
\* offset+PageLength of the newest-first order of the matching records.
PageIsRight(p, M, N) ==
    LET page == resp[p].result.transactions
        k == Len(page)
    IN /\ k = PageLength(p, N)
       /\ \A j \in 1 .. k : page[j] = ledger[page[j].id] /\ page[j].id \in M
       /\ \A j \in 1 .. k - 1 : page[j].id > page[j + 1].id
       /\ k > 0 =>
            /\ Cardinality({i \in M : i > page[1].id}) = req[p].offset
            /\ Cardinality({i \in M : i <= page[1].id /\ i >= page[k].id}) = k
       /\ resp[p].result.limit = (IF req[p].limit > 100 THEN 100 ELSE req[p].limit)
       /\ resp[p].result.offset = req[p].offset

Answered(p) == IsHistory(p) /\ Done(p) /\ resp[p].code = 200

Logged == {p \in Procs : IsDispatch(p) /\ loc[p].txid # 0}

\* C23: the dispatches that passed validation and logged have one record
\* each, with an id of its own; a record is touched by no call but the one
\* that created it: it is pending, without result and error, until its own
\* call finalizes it, and then its status, result and error are those of its
\* own call (success with its own handler's result, failed with its own
\* error), whatever the other calls on the room did.
C23_ConcurrentDispatchesIndependent ==
    /\ Cardinality({i \in 1 .. Len(ledger) : ledger[i].by \in Procs}) = Cardinality(Logged)
    /\ \A i \in 1 .. Len(ledger) : ledger[i].id = i
    /\ \A p \in Logged :
          LET r == ledger[loc[p].txid]
          IN /\ RecordsBy(p) = {loc[p].txid}
             /\ r.room_id = req[p].room_id /\ r.action = req[p].action /\ r.params = req[p].params
             /\ ~Done(p) => (r.status = "pending" /\ r.result = None /\ r.error = None)
             /\ r.status = "pending" => (r.result = None /\ r.error = None)
             /\ r.status = "success" =>
                   (loc[p].hresult # None /\ r.result = loc[p].hresult /\ r.error = None)
             /\ r.status = "failed" =>
                   (loc[p].exc # None /\ r.error = ErrorText(loc[p].exc.detail) /\ r.result = None)
             /\ r.status \in {"pending", "success", "failed"}

\* two dispatches on one room: the later one is finalized success while the
\* earlier one, whose record is older, has submitted and is still pending
C23_Witness ==
    /\ \A p \in Procs : p \in Logged /\ req[p].room_id = "r1" /\ req[p].action = "transfer"
    /\ loc[1].txid = 1 /\ loc[2].txid = 2
    /\ pc[1] = "t_wait" /\ ledger[1].status = "pending"
    /\ Done(2) /\ ledger[2].status = "success" /\ resp[2].success

\* --------------------------------------------------------------- C24
\* C24: with the Agent Runtime base URL not set, a create-agent request and
\* a room saga end in an error having made no call to a remote system, and
\* nothing exists remotely for them; the saga has provisioned no Wallet
\* Identity and no Wallet Service account.
C24_UrlNotSetNoSideEffects ==
    \A p \in Procs : (req[p].kind \in {"create_agent", "create_room"}) =>
        /\ Done(p) => ~resp[p].success
        /\ \A k \in 1 .. Len(loc[p].calls) : loc[p].calls[k].call \notin RemoteEffectCalls
        /\ RemoteAgentOf(p) = {} /\ RemoteRoomOf(p) = {}
        /\ IsSaga(p) => (WalletOf(p) = {} /\ CdpAccountsOf(p) = {})

\* --------------------------------------------------------------- C25
\* what a step may do to the ledger: every record stays, with its id, room_id,
\* action and params; a record that changes was pending and becomes success
\* or failed; a record that is success or failed does not change
C25_Step ==
    /\ Len(ledger') >= Len(ledger)
    /\ \A i \in 1 .. Len(ledger) :
          /\ ledger'[i].id = ledger[i].id
          /\ ledger'[i].room_id = ledger[i].room_id
          /\ ledger'[i].action = ledger[i].action
          /\ ledger'[i].params = ledger[i].params
          /\ ledger'[i] # ledger[i] =>
                (ledger[i].status = "pending" /\ ledger'[i].status \in {"success", "failed"})
          /\ ledger[i].status \in {"success", "failed"} => ledger'[i] = ledger[i]

\* C25: a Transaction Record, once created, is never deleted and is changed
\* at most once, from pending to success or from pending to failed; its
\* room_id, action and params never change.
C25_RecordMutatedAtMostOnce == [][C25_Step]_vars

\* a record finalized failed after its success write did not go through,
\* while another dispatch on the room, started later, is about to finalize
\* its own
C25_Witness ==
    /\ Len(ledger) = 2
    /\ ledger[1].status = "failed" /\ ledger[1].by = 1 /\ Done(1) /\ loc[1].hresult # None
    /\ ledger[2].status = "pending" /\ ledger[2].by = 2 /\ pc[2] = "d_success"
    /\ ledger[1].room_id = ledger[2].room_id

\* --------------------------------------------------------------- C26
\* the request whose step this is
Stepping(p) == pc'[p] # pc[p]

\* C26, of every step: a stored Wallet Identity is in the table after the
\* step as it was before it, unless the step is delete_wallet of its room;
\* the steps of a dispatch, of a ledger query and of a provision answered 409
\* leave the table as it is; a step of delete_wallet adds nothing to the
\* table and leaves the accounts of the Wallet Service as they are.
C26_Step ==
    /\ \A w \in wallets :
          w \notin wallets' =>
             \E p \in Procs : /\ Stepping(p) /\ req[p].kind = "delete_wallet"
                              /\ pc[p] = "w_delete" /\ req[p].room_id = w.room_id
    /\ \A p \in Procs :
          /\ (Stepping(p) /\ req'[p].kind \in {"dispatch", "history"}) => wallets' = wallets
          /\ (Stepping(p) /\ req'[p].kind = "provision" /\ resp'[p] # None /\ resp'[p].code = 409)
                => wallets' = wallets
          /\ (Stepping(p) /\ req'[p].kind = "delete_wallet") =>
                /\ wallets' \subseteq wallets
                /\ cdpAccounts' = cdpAccounts /\ cdpSmart' = cdpSmart
                /\ ledger' = ledger

C26_WalletIdentityNeverMutated == [][C26_Step]_vars

\* delete_wallet has removed the Wallet Identity of r1 while a transfer of
\* r1 had submitted its operation; the accounts of r1 are still held by the
\* Wallet Service
C26_Witness ==
    \E p, q \in Procs :
        /\ req[p].kind = "delete_wallet" /\ req[p].room_id = "r1" /\ Done(p)
        /\ resp[p].success /\ resp[p].result.deleted
        /\ RowsOf("r1") = {}
        /\ AccountsNamed(cdpAccounts, "r1") # {} /\ AccountsNamed(cdpSmart, "r1") # {}
        /\ IsDispatch(q) /\ req[q].room_id = "r1" /\ pc[q] = "t_wait"

\* --------------------------------------------------------------- C27
\* p takes a step of DELETE /agents
DeleteStep(p) == Stepping(p) /\ req'[p].kind = "delete_agent"

\* no stored Agent row has the id and the user_id of the request
NotOwner(p) ==
    \A a \in platformAgents : a.id = req'[p].agent_id => a.user_id # req'[p].user_id

\* What C27 says of a step, NotFoundCodes being the answers allowed to a
\* request that is not the owner's: an Agent row leaves the table only in
\* the datastore delete of a request with its id and its user_id; a request
\* goes on to the stop call only if its lookup found a row with its id and
\* user_id; a request for which there is no such row ends there, answered
\* with one of NotFoundCodes (500 if the lookup itself failed), and its steps
\* change no Agent row and nothing at the Agent Runtime.
OwnershipChecked(NotFoundCodes) ==
    /\ \A a \in platformAgents \ platformAgents' :
          \E p \in Procs : /\ DeleteStep(p) /\ pc[p] = "x_delete"
                           /\ req[p].agent_id = a.id /\ req[p].user_id = a.user_id
    /\ \A p \in Procs :
          /\ (DeleteStep(p) /\ pc'[p] = "x_stop") =>
                /\ pc[p] = "x_lookup" /\ ~NotOwner(p)
          /\ (DeleteStep(p) /\ pc[p] = "idle") => platform' = platform
          /\ (DeleteStep(p) /\ ((pc[p] = "idle" /\ req'[p].user_id = "")
                               \/ (pc[p] = "x_lookup" /\ NotOwner(p)))) =>
                /\ pc'[p] = "done" /\ ~resp'[p].success
                /\ resp'[p].code \in NotFoundCodes \cup
                      (IF Len(loc'[p].calls) > 0 /\ ~loc'[p].calls[1].ok THEN {500} ELSE {})
                /\ \A k \in 1 .. Len(loc'[p].calls) : loc'[p].calls[k].call = "select platform_agents"
                /\ platform' = platform

\* C27 as stated: a request that is not the owner's fails with NotFound.
C27_NonOwnerNotFound == [][OwnershipChecked({404})]_vars

\* C27 amended: it fails with NotFound, or with BadRequest when its user_id
\* is empty.
C27_NonOwnerRejected == [][OwnershipChecked({400, 404})]_vars

\* u2 asked to delete the agent of u1 and got 404 after the lookup alone;
\* the row and the remote agent, still started, are there
C27_Witness ==
    \E p \in Procs :
        /\ req[p].kind = "delete_agent" /\ req[p].user_id = "u2"
        /\ req[p].agent_id = AgentBefore.id /\ Done(p) /\ resp[p].code = 404
        /\ loc[p].calls = <<[call |-> "select platform_agents", ok |-> TRUE]>>
        /\ AgentBefore \in platformAgents
        /\ AgentBefore.eliza_agent_id \in elizaAgents \cap elizaStarted

\* --------------------------------------------------------------- C28
\* the calls of the saga in the order of its steps (the lookup of the
\* additional agents, made only when agent_ids are given, left aside)
SagaOrder ==
    << "generate_strategy_prompt", "POST /wallets", "POST /api/agents",
       "POST /api/agents/start", "POST /api/rooms", "insert platform_rooms",
       "insert platform_agents" >>

\* the calls p has made, the lookup left aside
StepsOf(p) ==
    LET IsStep(c) == c.call # "select platform_agents"
    IN SelectSeq(loc[p].calls, IsStep)

\* C28: the calls a saga has made are the first ones of SagaOrder, in that
\* order, each made only after the one before it succeeded (the start of the
\* agent may have failed); the lookup, if made, comes between the start and
\* the create-room request; and the effects follow the calls: a Wallet
\* Identity only once the wallet request was made, a remote agent only after
\* the wallet request succeeded, a remote room only after the create-agent
\* request succeeded, a Room row only after the create-room request
\* succeeded, an Agent row only after the Room row was inserted.
C28_SagaOrder ==
    \A p \in Procs : IsSaga(p) =>
        LET steps == StepsOf(p) IN
        /\ Len(steps) <= Len(SagaOrder)
        /\ \A k \in 1 .. Len(steps) :
              /\ steps[k].call = SagaOrder[k]
              /\ k < Len(steps) => (steps[k].ok \/ steps[k].call = "POST /api/agents/start")
        /\ CallMade(p, "select platform_agents") =>
              /\ CallMade(p, "POST /api/agents/start")
              /\ PlaceOf(p, "POST /api/agents/start") < PlaceOf(p, "select platform_agents")
              /\ CallMade(p, "POST /api/rooms") =>
                    PlaceOf(p, "select platform_agents") < PlaceOf(p, "POST /api/rooms")
        /\ (WalletOf(p) # {} \/ CdpAccountsOf(p) # {}) => CallMade(p, "POST /wallets")
        /\ RemoteAgentOf(p) # {} =>
              (Succeeded(p, "POST /wallets") /\ WalletOf(p) # {} /\ CallMade(p, "POST /api/agents"))
        /\ ElizaAgentId(p) \in elizaStarted => Succeeded(p, "POST /api/agents")
        /\ RemoteRoomOf(p) # {} =>
              (Succeeded(p, "POST /api/agents") /\ CallMade(p, "POST /api/agents/start")
               /\ CallMade(p, "POST /api/rooms"))
        /\ RoomRowsOf(p) # {} => (Succeeded(p, "POST /api/rooms") /\ RemoteRoomOf(p) # {})
        /\ AgentRowsOf(p) # {} => (Succeeded(p, "insert platform_rooms") /\ RoomRowsOf(p) # {})

\* a saga that went through all its steps, with agent_ids given, its agent
\* started: everything it makes exists
C28_Witness ==
    \E p \in Procs :
        /\ IsSaga(p) /\ Done(p) /\ resp[p].success /\ req[p].agent_ids # {}
        /\ Len(StepsOf(p)) = Len(SagaOrder) /\ Len(loc[p].calls) = Len(SagaOrder) + 1
        /\ \A k \in 1 .. Len(loc[p].calls) : loc[p].calls[k].ok
        /\ WalletOf(p) # {} /\ RemoteAgentOf(p) # {} /\ RemoteRoomOf(p) # {}
        /\ RoomRowsOf(p) # {} /\ AgentRowsOf(p) # {}

\* --------------------------------------------------------------- C29
IsTransferOrSwap(p) == IsDispatch(p) /\ req[p].action \in {"transfer", "swap"}

\* one of the two account requests of p raised (an error or a timeout)
AccountRequestFailed(p) ==
    CallFailed(p, "get_or_create_account") \/ CallFailed(p, "get_or_create_smart_account")

\* C29: a transfer or swap that has submitted anything, or made any other
\* Wallet Service call, first requested the owner account and then the smart
\* account from the Wallet Service, both by the owner_account_name of the
\* stored Wallet Identity, in this very dispatch; the operations are
\* submitted from the account so obtained.  If one of the two requests
\* raised, nothing was submitted and no further call made, the handler
\* raised a 500, the caller gets a 500, and the record is finalized failed
\* with the handler's message (pending until that write, and left pending if
\* the write itself raises).
C29_AccountsResolvedPerDispatch ==
    \A p \in Procs : IsTransferOrSwap(p) =>
        /\ Len(loc[p].calls) >= 1 => loc[p].calls[1].call = "get_or_create_account"
        /\ Len(loc[p].calls) >= 2 =>
              /\ loc[p].calls[1].ok
              /\ loc[p].calls[2].call = "get_or_create_smart_account"
              /\ loc[p].owner # None
              /\ loc[p].owner.name = loc[p].wallet.owner_account_name
        /\ Len(loc[p].calls) >= 3 =>
              /\ loc[p].calls[2].ok
              /\ loc[p].smart # None
              /\ loc[p].smart.name = loc[p].wallet.owner_account_name
        /\ \A k \in 1 .. Len(loc[p].ops) :
              /\ Len(loc[p].calls) >= 3
              /\ loc[p].ops[k].account = loc[p].smart.address
        /\ \A k \in 3 .. Len(loc[p].calls) :
              loc[p].calls[k].call \notin {"get_or_create_account", "get_or_create_smart_account"}
        /\ AccountRequestFailed(p) =>
              /\ loc[p].ops = <<>> /\ Len(loc[p].calls) <= 2
              /\ ~loc[p].calls[Len(loc[p].calls)].ok
              /\ loc[p].hresult = None
              /\ loc[p].herr # None /\ loc[p].herr.exc = "HTTPException" /\ loc[p].herr.code = 500
              /\ pc[p] \in {"d_http", "done"}
              /\ pc[p] = "d_http" => ledger[loc[p].txid].status = "pending"
              /\ Done(p) =>
                    /\ ~resp[p].success /\ resp[p].code = 500
                    /\ ledger[loc[p].txid].status =
                          (IF resp[p].detail = loc[p].herr.detail THEN "failed" ELSE "pending")
                    /\ ledger[loc[p].txid].status = "failed" =>
                          ledger[loc[p].txid].error = ErrorText(loc[p].herr.detail)

\* two dispatches on r1: a transfer that has submitted from the account it
\* asked for itself, and a swap whose request for the smart account raised,
\* answered 500 with its record failed
C29_Witness ==
    \E p, q \in Procs :
        /\ IsDispatch(p) /\ req[p].action = "transfer" /\ req[p].room_id = "r1"
        /\ Len(loc[p].calls) >= 3 /\ Len(loc[p].ops) = 1
        /\ loc[p].ops[1].account = SmartAddress("r1", 1)
        /\ IsDispatch(q) /\ req[q].action = "swap" /\ req[q].room_id = "r1"
        /\ CallFailed(q, "get_or_create_smart_account") /\ Done(q)
        /\ resp[q].code = 500 /\ ledger[loc[q].txid].status = "failed"
        /\ loc[q].ops = <<>>

\* --------------------------------------------------------------- C30
\* p has submitted an operation and its record is not finalized yet
SubmittedNotFinalized(p) ==
    /\ IsTransferOrSwap(p) /\ pc[p] \notin {"idle", "done"}
    /\ loc[p].ops # <<>>
    /\ loc[p].txid \in 1 .. Len(ledger) /\ ledger[loc[p].txid].status = "pending"

\* p is at the point of submitting an operation the Wallet Service can accept
AboutToSubmit(p) ==
    /\ IsTransferOrSwap(p)
    /\ \/ pc[p] \in {"t_send", "s_swap"}
       \/ pc[p] = "s_approve" /\ IsIntLiteral(req[p].params.amount)

\* the step with which p submits an operation
SubmitStep(p) ==
    /\ TransferSend(p) \/ SwapApprove(p) \/ SwapSubmit(p)
    /\ Len(loc'[p].ops) = Len(loc[p].ops) + 1

\* C30: no mutual exclusion between dispatches on the same room: a transfer
\* or swap that is about to submit can always submit, whatever the other
\* dispatches on its room have submitted and not yet finalized; the state
\* in which two of them have both submitted from the same custodial account
\* with both records still pending is C30_Witness.
C30_NoMutualExclusion ==
    \A p \in Procs : AboutToSubmit(p) => ENABLED SubmitStep(p)

\* two transfers on r1 have both submitted from the same custodial account
\* and neither record is finalized
C30_Witness ==
    \E p, q \in Procs :
        /\ p # q
        /\ SubmittedNotFinalized(p) /\ SubmittedNotFinalized(q)
        /\ req[p].action = "transfer" /\ req[q].action = "transfer"
        /\ req[p].room_id = "r1" /\ req[q].room_id = "r1"
        /\ loc[p].ops[1].account = loc[q].ops[1].account
        /\ loc[p].txid # loc[q].txid

\* --------------------------------------------------------------- C31
\* p passed the endpoint's wallet check and holds no Transaction Record id
NoRecordId(p) == IsDispatch(p) /\ loc[p].wallet # None /\ loc[p].txid = 0

\* the append of p's pending record raised
AppendFailed(p) == NoRecordId(p) /\ Done(p)

\* C31: a dispatch that passed the wallet check and has no record id is
\* either still before its append or was ended by it: the handler never
\* started, no Wallet Service call was made, the ledger holds no record of
\* the invocation, and once the append has raised the caller has the error
\* (a 500 from the global handler); the append is made once.
C31_AppendFailurePropagates ==
    \A p \in Procs : NoRecordId(p) =>
        /\ pc[p] \in {"d_log", "done"}
        /\ ~HandlerStarted(p)
        /\ loc[p].calls = <<>> /\ loc[p].ops = <<>>
        /\ loc[p].result = None /\ loc[p].exc = None
        /\ RecordsBy(p) = {}
        /\ Done(p) => ~resp[p].success /\ resp[p].code = 500

\* the append of a transfer on a provisioned room raised, while the other
\* dispatch on the room has its record
C31_Witness ==
    \E p, q \in Procs :
        /\ AppendFailed(p) /\ req[p].action = "transfer" /\ req[p].room_id = "r1"
        /\ resp[p].code = 500 /\ RecordsBy(p) = {}
        /\ IsDispatch(q) /\ req[q].room_id = "r1" /\ RecordsBy(q) # {}

\* --------------------------------------------------------------- C32
\* the transfer p was submitted and the wait for its confirmation returned
TransferConfirmed(p) ==
    /\ IsDispatch(p) /\ req[p].action = "transfer"
    /\ Len(loc[p].calls) = 4
    /\ loc[p].calls[3] = [call |-> "send_user_operation", ok |-> TRUE]
    /\ loc[p].calls[4] = [call |-> "wait_for_user_operation", ok |-> TRUE]

\* C32: a transfer whose submission succeeded and whose confirmation
\* returned has a handler result with the submitted operation's hash as
\* user_op_hash and the confirmation's status; transaction_hash is the
\* confirmed transaction's hash when that status is complete and null for
\* any other status.  Its record is pending until the dispatcher finalizes
\* it, and when the caller is answered with success the record is success
\* and carries exactly that result.
C32_TransferResult ==
    \A p \in Procs : TransferConfirmed(p) =>
        LET r == loc[p].hresult
            row == ledger[loc[p].txid]
        IN /\ r # None /\ loc[p].herr = None
           /\ r.user_op_hash = loc[p].op.user_op_hash
           /\ r.user_op_hash = UserOp(p, "transfer").user_op_hash
           /\ r.status \in ReceiptStatuses
           /\ r.status = "complete" =>
                 /\ r.transaction_hash = TxHash(loc[p].op)
                 /\ r.transaction_hash # None
           /\ r.status # "complete" => r.transaction_hash = None
           /\ pc[p] \in {"d_success", "d_exc", "done"}
           /\ pc[p] = "d_success" => row.status = "pending" /\ row.result = None
           /\ (Done(p) /\ resp[p].success) =>
                 /\ row.status = "success" /\ row.result = r
                 /\ resp[p].result = r /\ resp[p].transaction_id = loc[p].txid

\* one transfer finalized success with the confirmed transaction's hash,
\* another finalized success after a confirmation that was not complete
C32_Witness ==
    \E p, q \in Procs :
        /\ TransferConfirmed(p) /\ Done(p) /\ resp[p].success
        /\ ledger[loc[p].txid].status = "success"
        /\ ledger[loc[p].txid].result.status = "complete"
        /\ ledger[loc[p].txid].result.transaction_hash = TxHash(loc[p].op)
        /\ TransferConfirmed(q) /\ Done(q) /\ resp[q].success
        /\ ledger[loc[q].txid].status = "success"
        /\ ledger[loc[q].txid].result.status = "failed"
        /\ ledger[loc[q].txid].result.transaction_hash = None
        /\ ledger[loc[q].txid].result.user_op_hash = loc[q].op.user_op_hash

\* --------------------------------------------------------------- C33
\* the swap p sells something other than the native asset and its amount is
\* an integer
NeedsIntegerApproval(p) ==
    /\ IsDispatch(p) /\ req[p].action = "swap"
    /\ ~IsNativeSentinel(req[p].params.from_token)
    /\ IsIntLiteral(req[p].params.amount)

\* C33: every approval a swap of a non-native sell token with integer amount
\* a has submitted names the allowance-protocol contract as spender, grants
\* a * 10, and is addressed to the contract of the sell token, that is the
\* address the sell token resolves to.
C33_ApprovalAllowance ==
    \A p \in Procs : NeedsIntegerApproval(p) =>
        \A k \in OpsOfKind(p, "approve") :
            /\ loc[p].ops[k].spender = PERMIT2_ADDRESS
            /\ loc[p].ops[k].allowance = IntOf(req[p].params.amount) * 10
            /\ loc[p].ops[k].to = resolve_token_address(req[p].params.from_token).address

\* --------------------------------------------------------------- C34
\* the identifiers that are addresses: those of the table and one outside it
AddressIdentifiers ==
    {TOKEN_ADDRESSES[sym] : sym \in DOMAIN TOKEN_ADDRESSES} \cup {"0xabc"}

\* the swap p has all three parameters, its tokens are strings, and one of
\* them is neither an address nor a known symbol
UnknownTokenSwap(p) ==
    /\ IsDispatch(p) /\ req[p].action = "swap"
    /\ ~Falsy(req[p].params.from_token) /\ ~Falsy(req[p].params.to_token)
    /\ ~Falsy(req[p].params.amount)
    /\ req[p].params.from_token # NonString /\ req[p].params.to_token # NonString
    /\ \E t \in {req[p].params.from_token, req[p].params.to_token} :
          t \notin AddressIdentifiers /\ Upper(t) \notin DOMAIN TOKEN_ADDRESSES

\* C34: token resolution returns an identifier that starts with 0x as it
\* is, a known symbol in either case as its address of the table, and raises
\* a 400 for anything else.  A swap with an unknown token whose handler has
\* started has raised that 400 whether or not the room's wallet is still
\* stored, has made no Wallet Service call and submitted nothing; its record
\* is pending until the dispatcher finalizes it, the caller is answered 400
\* with the record failed (or 500 with the record left pending when that
\* write raises).
C34_TokenResolution ==
    /\ \A t \in AddressIdentifiers : resolve_token_address(t) = [address |-> t, error |-> None]
    /\ \A sym \in DOMAIN TOKEN_ADDRESSES :
          resolve_token_address(sym) = [address |-> TOKEN_ADDRESSES[sym], error |-> None]
    /\ resolve_token_address("eth") = [address |-> ZERO_ADDRESS, error |-> None]
    /\ resolve_token_address("usdc") =
          [address |-> "0x833589fCD6eDb6E08f4c7C32D4f71b54bdA02913", error |-> None]
    /\ resolve_token_address("FOO").error = HTTPException(400, <<"Unknown token: ", "FOO">>)
    /\ \A p \in Procs :
          (UnknownTokenSwap(p) /\ loc[p].txid # 0 /\ pc[p] # "h_start") =>
             /\ loc[p].herr = HTTPException(400, <<"Unknown token: ", "FOO">>)
             /\ loc[p].hresult = None
             /\ loc[p].calls = <<>> /\ loc[p].ops = <<>>
             /\ loc[p].owner = None /\ loc[p].smart = None
             /\ pc[p] \in {"d_http", "done"}
             /\ pc[p] = "d_http" => ledger[loc[p].txid].status = "pending"
             /\ Done(p) =>
                   \/ /\ resp[p].code = 400 /\ resp[p].detail = loc[p].herr.detail
                      /\ ledger[loc[p].txid].status = "failed"
                      /\ ledger[loc[p].txid].error = ErrorText(loc[p].herr.detail)
                   \/ /\ resp[p].code = 500
                      /\ ledger[loc[p].txid].status = "pending"

\* a swap into an unknown token on r1 was answered 400 with its record
\* failed and no call made, the wallet of r1 having been deleted meanwhile;
\* the 400 is the handler's, not the 404 of a missing wallet
C34_Witness ==
    \E p, q \in Procs :
        /\ UnknownTokenSwap(p) /\ req[p].params.to_token = "FOO" /\ req[p].room_id = "r1"
        /\ Done(p) /\ resp[p].code = 400 /\ loc[p].calls = <<>>
        /\ loc[p].txid # 0 /\ ledger[loc[p].txid].status = "failed"
        /\ req[q].kind = "delete_wallet" /\ req[q].room_id = "r1" /\ Done(q)
        /\ resp[q].success /\ resp[q].result.deleted
        /\ RowsOf("r1") = {}

\* --------------------------------------------------------------- C35
\* the Wallet Service call that submits the operation of an action
SubmissionCall(action) == IF action = "transfer" THEN "send_user_operation" ELSE "swap"

\* the position in p's calls of the submission of its transfer or swap: the
\* third call, or the fifth for a swap that approves first
SubmissionAt(p) ==
    IF req[p].action = "swap" /\ NeedsApproval(req[p].params.from_token) THEN 5 ELSE 3

\* C35: a Transaction Record of a transfer or swap with status success
\* carries a result whose user_op_hash is not null and is the hash the
\* Wallet Service returned for the operation the invocation that wrote the
\* record submitted; the submission call of that invocation returned.  An
\* invocation whose submission call raised has no result and its record is
\* not success.
C35_SuccessMeansSubmitted ==
    /\ \A i \in 1 .. Len(ledger) :
          (ledger[i].action \in {"transfer", "swap"} /\ ledger[i].status = "success") =>
             LET p == ledger[i].by
                 k == SubmissionAt(p)
             IN /\ IsDispatch(p) /\ loc[p].txid = i /\ req[p].action = ledger[i].action
                /\ ledger[i].result # None
                /\ ledger[i].result.user_op_hash # None
                /\ ledger[i].result.user_op_hash = loc[p].op.user_op_hash
                /\ ledger[i].result.user_op_hash.by = p
                /\ Len(loc[p].calls) >= k
                /\ loc[p].calls[k] = [call |-> SubmissionCall(req[p].action), ok |-> TRUE]
                /\ OpsOfKind(p, req[p].action) # {}
    /\ \A p \in Procs :
          (/\ IsTransferOrSwap(p)
           /\ Len(loc[p].calls) >= SubmissionAt(p)
           /\ loc[p].calls[SubmissionAt(p)] = [call |-> SubmissionCall(req[p].action), ok |-> FALSE]) =>
             /\ loc[p].hresult = None /\ loc[p].herr # None
             /\ OpsOfKind(p, req[p].action) = {}
             /\ ledger[loc[p].txid].status # "success"
             /\ Done(p) => ~resp[p].success

\* a transfer finalized success with the hash of its submitted operation,
\* and on the same room a swap whose submission raised, its record failed
C35_Witness ==
    \E p, q \in Procs :
        /\ IsDispatch(p) /\ req[p].action = "transfer" /\ Done(p) /\ resp[p].success
        /\ ledger[loc[p].txid].status = "success"
        /\ ledger[loc[p].txid].result.user_op_hash = UserOp(p, "transfer").user_op_hash
        /\ IsDispatch(q) /\ req[q].action = "swap" /\ req[q].room_id = req[p].room_id
        /\ CallFailed(q, "swap") /\ Done(q)
        /\ ledger[loc[q].txid].status = "failed"

\* --------------------------------------------------------------- C36
\* the smart account address the provision that stored row w created: that
\* of the request that inserted it, or for a row stored before the run the
\* first smart account of the room's name
ProvisionedSmartAddress(w) ==
    IF w.by = 0 THEN SmartAddress(owner_account_name_of(w.room_id), 1)
    ELSE loc[w.by].smart.address

\* C36: every stored Wallet Identity carries the name provision derives from
\* its room_id and the address of the smart account its provision created,
\* and the Wallet Service holds one smart account under that name.  Every
\* operation a transfer or swap has submitted was submitted from the account
\* the handler obtained by the stored owner_account_name, and that account's
\* address is the stored smart_account_address of the room.
C36_SubmitsFromProvisionedAccount ==
    /\ \A w \in wallets :
          /\ w.owner_account_name = owner_account_name_of(w.room_id)
          /\ w.smart_account_address = ProvisionedSmartAddress(w)
          /\ {a.address : a \in AccountsNamed(cdpSmart, w.owner_account_name)}
                = {w.smart_account_address}
    /\ \A p \in Procs : IsTransferOrSwap(p) =>
          \A k \in 1 .. Len(loc[p].ops) :
             /\ loc[p].wallet # None
             /\ loc[p].smart.name = loc[p].wallet.owner_account_name
             /\ loc[p].smart.name = owner_account_name_of(req[p].room_id)
             /\ loc[p].ops[k].account = loc[p].smart.address
             /\ loc[p].ops[k].account = loc[p].wallet.smart_account_address
             /\ loc[p].ops[k].account = ProvisionedSmartAddress(loc[p].wallet)
             /\ loc[p].ops[k].account # None

\* a provision stored the wallet of a room and a transfer on that room has
\* then submitted from the smart account the provision answered with
C36_Witness ==
    \E q, p \in Procs :
        /\ IsProvision(q) /\ Done(q) /\ resp[q].code = 201
        /\ IsDispatch(p) /\ req[p].action = "transfer" /\ req[p].room_id = req[q].room_id
        /\ Len(loc[p].ops) = 1
        /\ loc[p].wallet.by = q
        /\ loc[p].ops[1].account = resp[q].result.smart_account_address

\* --------------------------------------------------------------- C37
\* the handler of p has looked the wallet up and found none
HandlerFoundNoWallet(p) ==
    /\ IsDispatch(p) /\ loc[p].txid # 0
    /\ loc[p].herr = NotFoundError(req[p].room_id)

\* the handler of p starts with parameters it accepts while the wallet the
\* endpoint's check had seen is no longer stored
StartsAfterDelete(p) ==
    /\ pc[p] = "h_start" /\ Stepping(p)
    /\ ParamError(req[p].action, req[p].params) = None
    /\ RowsOf(req[p].room_id) = {}

\* C37, of every step: a handler that starts after the wallet its endpoint
\* had seen was deleted raises NotFound, with the one pending record of the
\* invocation already in the ledger; a dispatch whose handler raised NotFound
\* has exactly one record, pending until the dispatcher's write; the step
\* that answers the caller with that NotFound has written the record failed
\* with the NotFound message, and the only other answer is a 500 when that
\* write raises.
C37_Step ==
    \A p \in Procs :
        /\ StartsAfterDelete(p) =>
              /\ loc'[p].herr = NotFoundError(req[p].room_id)
              /\ loc[p].wallet # None
              /\ pc'[p] = "d_http"
              /\ loc'[p].calls = <<>>
              /\ RecordsBy(p) = {loc[p].txid}
              /\ ledger[loc[p].txid].status = "pending"
              /\ ledger' = ledger
        /\ (HandlerFoundNoWallet(p) /\ pc[p] = "d_http") =>
              /\ RecordsBy(p) = {loc[p].txid}
              /\ ledger[loc[p].txid].status = "pending"
        /\ (HandlerFoundNoWallet(p) /\ pc[p] = "d_http" /\ Stepping(p)) =>
              /\ pc'[p] = "done"
              /\ \/ /\ resp'[p].code = 404
                    /\ ledger'[loc[p].txid].status = "failed"
                    /\ ledger'[loc[p].txid].error = ErrorText(loc[p].herr.detail)
                 \/ /\ resp'[p].code = 500 /\ ledger' = ledger
              /\ {i \in 1 .. Len(ledger') : ledger'[i].by = p} = {loc[p].txid}
        /\ (HandlerFoundNoWallet(p) /\ Done(p) /\ resp[p].code = 404) =>
              /\ RecordsBy(p) = {loc[p].txid}
              /\ ledger[loc[p].txid].status = "failed"

C37_DeletedBetweenCheckAndHandler == [][C37_Step]_vars

\* the wallet of r1 was deleted after the endpoint of a transfer had seen
\* it: the transfer was answered 404, its one record is failed, and no
\* Wallet Service call was made
C37_Witness ==
    \E p, q \in Procs :
        /\ HandlerFoundNoWallet(p) /\ req[p].action = "transfer" /\ req[p].room_id = "r1"
        /\ loc[p].wallet # None
        /\ Done(p) /\ resp[p].code = 404
        /\ RecordsBy(p) = {loc[p].txid} /\ ledger[loc[p].txid].status = "failed"
        /\ loc[p].calls = <<>>
        /\ req[q].kind = "delete_wallet" /\ req[q].room_id = "r1" /\ Done(q)
        /\ resp[q].success /\ resp[q].result.deleted

\* --------------------------------------------------------------- C38
IsCreateAgent(p) == req[p].kind = "create_agent"

\* the Agent row of request p was deleted again by a DELETE /agents
DeletedAgain(p) ==
    \E q \in Procs :
        /\ req[q].kind = "delete_agent" /\ req[q].agent_id = AgentRowId(p)
        /\ Succeeded(q, "delete platform_agents")

\* C38: in POST /agents the calls are made in the order create, start,
\* insert, and a delete of the remote agent only after a failed insert.  A
\* failed insert came after the remote agent was created, leaves no Agent
\* row of the request, is followed by one delete request to the Agent
\* Runtime whose outcome changes nothing, and ends in a 500.  A failed start
\* call does not end the request: the insert is still made, and when it
\* succeeds the caller gets 201 with a row of status active for the remote
\* agent created, which stays stored unless a DELETE /agents removes it.
C38_InsertFailureCompensated ==
    \A p \in Procs : IsCreateAgent(p) =>
        /\ \A k \in 1 .. Len(loc[p].calls) :
              loc[p].calls[k].call =
                 <<"POST /api/agents", "POST /api/agents/start",
                   "insert platform_agents", "DELETE /api/agents">>[k]
        /\ Len(loc[p].calls) >= 2 => loc[p].calls[1].ok
        /\ Len(loc[p].calls) = 4 => ~loc[p].calls[3].ok
        /\ CallFailed(p, "insert platform_agents") =>
              /\ AgentRowsOf(p) = {}
              /\ pc[p] \in {"a_cleanup", "done"}
              /\ pc[p] = "a_cleanup" => Len(loc[p].calls) = 3 /\ resp[p] = None
              /\ Done(p) =>
                    /\ Len(loc[p].calls) = 4
                    /\ ~resp[p].success /\ resp[p].code = 500
                    /\ resp[p].error[1] = "Failed to store agent in database: "
        /\ CallFailed(p, "POST /api/agents/start") =>
              /\ pc[p] \in {"a_insert", "a_cleanup", "done"}
              /\ Done(p) => Len(loc[p].calls) >= 3
        /\ Succeeded(p, "insert platform_agents") =>
              /\ Done(p) /\ resp[p].success /\ resp[p].code = 201
              /\ resp[p].result = AgentRow(AgentRowId(p), req[p].user_id, ElizaAgentId(p), p)
              /\ resp[p].result.status = "active"
              /\ resp[p].result \in platformAgents \/ DeletedAgain(p)

\* one POST /agents whose start call failed and whose row is stored active,
\* another whose insert failed and whose delete of the remote agent failed
\* too: answered 500, no row, the remote agent still there
C38_Witness ==
    \E p, q \in Procs :
        /\ IsCreateAgent(p) /\ CallFailed(p, "POST /api/agents/start")
        /\ Done(p) /\ resp[p].code = 201
        /\ AgentRowsOf(p) # {} /\ \A a \in AgentRowsOf(p) : a.status = "active"
        /\ ElizaAgentId(p) \notin elizaStarted
        /\ IsCreateAgent(q) /\ CallFailed(q, "insert platform_agents")
        /\ CallFailed(q, "DELETE /api/agents")
        /\ Done(q) /\ resp[q].code = 500
        /\ AgentRowsOf(q) = {} /\ ElizaAgentId(q) \in elizaAgents

\* --------------------------------------------------------------- C39
\* the DELETE /agents request p was made by the owner: its lookup found the row
DeleteByOwner(p) ==
    /\ req[p].kind = "delete_agent"
    /\ pc[p] \in {"x_stop", "x_remote", "x_delete"} \/ Len(loc[p].calls) >= 2

\* C39: a DELETE /agents by the owner makes its calls in the order lookup,
\* stop, remote delete, datastore delete, whatever the stop and the remote
\* delete answered: it does not end before the datastore delete was tried.
\* It reports success exactly when that delete did not raise, and a 500
\* otherwise; after a success no Agent row with the id is stored.
C39_DeleteSwallowsRemoteFailures ==
    \A p \in Procs : DeleteByOwner(p) =>
        /\ \A k \in 1 .. Len(loc[p].calls) :
              loc[p].calls[k].call =
                 <<"select platform_agents", "POST /api/agents/stop",
                   "DELETE /api/agents", "delete platform_agents">>[k]
        /\ loc[p].calls[1].ok
        /\ pc[p] = "x_stop" => Len(loc[p].calls) = 1
        /\ pc[p] = "x_remote" => Len(loc[p].calls) = 2
        /\ pc[p] = "x_delete" => Len(loc[p].calls) = 3
        /\ pc[p] \in {"x_stop", "x_remote", "x_delete", "done"}
        /\ Done(p) =>
              /\ Len(loc[p].calls) = 4
              /\ resp[p].success <=> loc[p].calls[4].ok
              /\ resp[p].success =>
                    /\ resp[p].code = 200
                    /\ \A a \in platformAgents : a.id # req[p].agent_id
              /\ ~resp[p].success =>
                    /\ resp[p].code = 500
                    /\ resp[p].error[1] = "Failed to delete agent from database: "

\* the owner's delete was answered with success after the stop call and the
\* remote delete had both failed: the row is gone, the remote agent is not
C39_Witness ==
    \E p \in Procs :
        /\ DeleteByOwner(p) /\ Done(p) /\ resp[p].success
        /\ req[p].agent_id = AgentBefore.id
        /\ loc[p].calls[2] = [call |-> "POST /api/agents/stop", ok |-> FALSE]
        /\ loc[p].calls[3] = [call |-> "DELETE /api/agents", ok |-> FALSE]
        /\ AgentBefore \notin platformAgents
        /\ AgentBefore.eliza_agent_id \in elizaAgents
=============================================================================
